---- MODULE Spec2Model ----
(***************************************************************************)
(* Model of registry-sample's streaming read/render pipeline:              *)
(*   spreadsheet.Producer.HTML  (producers/spreadsheet/producer.go)        *)
(*   csv.Reader.Read, mon.Reader.Read  (readers/csv, readers/mon)          *)
(* Strings are sequences of tokens, so that formatting is concatenation.   *)
(* Unbuffered channels are a one-place slot: the sender offers a value and *)
(* stays blocked until a receiver has taken it.                            *)
(***************************************************************************)
EXTENDS Integers, Sequences, FiniteSets, TLC

\* Bounds of the model.
MaxReads == 3        \* records the byte stream yields before it must end
MaxDoneCap == 3      \* largest capacity of a done channel handed to waitForDone

\* make(chan error, 2) in Producer.HTML
HtmlDoneCap == 2

Kinds == {"csv", "mon"}
Names == {"n1"}
NoPanic == "none"
ReaderPayload == "rd-fault"
TemplatePayload == "tpl-fault"

---------------------------------------------------------------------------
\* Error values: kind is the identity the caller can test (os.IsNotExist),
\* msg is the text of Error().
Nil == [kind |-> "nil", msg |-> <<>>]
ErrNotExist == [kind |-> "notexist", msg |-> <<"file does not exist">>]
ErrLoad == [kind |-> "plain", msg |-> <<"file is somewhere, but not here">>]
ErrWrite == [kind |-> "plain", msg |-> <<"write failed">>]

Separator == "; [add] "

\* fmt.Errorf("%s; [add] %s", result, err)
Compound(res, err) ==
  [kind |-> "plain", msg |-> res.msg \o <<Separator>> \o err.msg]

\* %T of the reader held by the Producer
TypeName(k) ==
  CASE k = "csv" -> "*csv.Reader"
    [] k = "mon" -> "*mon.Reader"
    [] OTHER -> "*spreadsheet.testReader"

\* fmt.Sprintf("Reader %T paniced", p.reader)
ReaderHelper(k) == <<"Reader ", TypeName(k), " paniced">>
TemplateHelper == <<"Template paniced">>

\* Variant: the name is left out of the report.
doneIfPanicBare(helper, nm, r) ==
  [kind |-> "plain", msg |-> helper \o <<": ", r>>]

\* fmt.Errorf("%s on %s: %s", helper, name, r)
doneIfPanic(helper, nm, r) ==
  [kind |-> "plain", msg |-> helper \o <<" on ", nm, ": ", r>>]

\* Suffix the reader appends to the logical name before Load.
LoadName(k, nm) == <<nm, IF k = "csv" THEN ".csv" ELSE ".mon">>

---------------------------------------------------------------------------
\* Rows.
columnParseError == "Unable to parse columns"
rowReadError == "Invalid row"
NoMessage == "nil"

DataRow(item) == [data |-> item, ErrorMessage |-> NoMessage]
ErrorRow(m) == [data |-> "", ErrorMessage |-> m]

\* What one record read of the byte stream can meet:
\*   r1, r2  well-formed records (lines) with different contents
\*   short   a record with another number of fields than the header
\*   bad     a record with a stray quote
\*   nonl    a last line that is not terminated by a newline
\*   ioerr   a failure of the underlying Read other than EOF
\*   eof     the end of the stream
\*   panic   the underlying Read panics
Items == {"r1", "r2", "short", "bad", "nonl", "ioerr", "eof", "panic"}

\* Variant: a last line without a newline is a line like the others.
ReadOutcomeKeepsLastLine(k, item) ==
  CASE item = "eof" -> "eof"
    [] item = "panic" -> "panic"
    [] item = "ioerr" -> "err"
    [] item = "bad" -> IF k = "csv" THEN "err" ELSE "ok"
    [] OTHER -> "ok"

\* Result of reading one record: csv_enc.Reader.Read filtered by
\* isCsvParseError in readRow, or bufio.Reader.ReadString('\n').
ReadOutcome(k, item) ==
  CASE item = "eof" -> "eof"
    [] item = "panic" -> "panic"
    [] item = "ioerr" -> "err"
    [] item = "bad" -> IF k = "csv" THEN "err" ELSE "ok"
    [] item = "nonl" -> IF k = "csv" THEN "ok" ELSE "eof"
    [] OTHER -> "ok"

\* The header record of a csv stream fixes the field count, so it cannot
\* itself be short.
ItemsAt(k, s) ==
  IF Len(s) >= MaxReads \/ (s # <<>> /\ s[Len(s)] = "nonl") THEN {"eof"}
  ELSE IF s = <<>> /\ k = "csv" THEN Items \ {"short"}
  ELSE Items

---------------------------------------------------------------------------
VARIABLES
  kind, name,                 \* the reader behind the Producer, HTML's name
  confirm, rows,              \* unbuffered channels: [buf, closed]
  stopRead,                   \* TRUE once close(stopRead) ran
  done, doneCap,              \* buffered outcome channel and its capacity
  rpc, loadErr, pending, after, rpanic, stream, src,   \* reader goroutine
  tpc, terr, tpanic, written,                          \* rendering goroutine
  mpc, mainI, result,                                  \* HTML / waitForDone
  confirmSent, rowsSent, rendered, drained, received, exitPath,
  executed, sawClose,         \* history of the run, read by the properties
  ppc, hdr, lt, rec, row,     \* one reader parsing a header and a record
  producers, mu,              \* ServeMux: registry and its mutex
  calls, ncalls, firstReg     \* the calls in progress on the ServeMux

chans == <<confirm, rows, stopRead, done, doneCap>>
rvars == <<rpc, loadErr, pending, after, rpanic, stream, src>>
tvars == <<tpc, terr, tpanic, written>>
mvars == <<mpc, mainI, result>>
hist == <<confirmSent, rowsSent, rendered, drained, received, exitPath,
          executed, sawClose>>
hvars == <<kind, name, chans, rvars, tvars, mvars, hist>>
pvars == <<ppc, hdr, lt, rec, row>>
xvars == <<producers, mu, calls, ncalls, firstReg>>
vars == <<hvars, pvars, xvars>>

\* The parsers and the ServeMux are not part of a run of Producer.HTML.
ParserIdle ==
  ppc = "off" /\ hdr = <<>> /\ lt = <<>> /\ rec = <<>> /\ row = <<>>
MuxIdle ==
  producers = <<>> /\ mu = 0 /\ calls = <<>> /\ ncalls = 0 /\ firstReg = <<>>

EmptyChan == [buf |-> <<>>, closed |-> FALSE]

Init ==
  /\ kind \in Kinds
  /\ name \in Names
  /\ confirm = EmptyChan
  /\ rows = EmptyChan
  /\ stopRead = FALSE
  /\ done = <<>>
  /\ doneCap = HtmlDoneCap
  /\ rpc = "idle" /\ loadErr = Nil /\ pending = ErrorRow("") /\ after = "none"
  /\ rpanic = NoPanic /\ stream = "none" /\ src = <<>>
  /\ tpc = "idle" /\ terr = Nil /\ tpanic = NoPanic /\ written = 0
  /\ mpc = "html" /\ mainI = 0 /\ result = Nil
  /\ confirmSent = <<>> /\ rowsSent = <<>> /\ rendered = <<>>
  /\ drained = <<>> /\ received = <<>> /\ exitPath = "none"
  /\ executed = FALSE /\ sawClose = FALSE
  /\ ParserIdle /\ MuxIdle

\* Producer.HTML up to the two go statements.
HTMLStart ==
  /\ mpc = "html"
  /\ mpc' = "wait"
  /\ rpc' = "load"
  /\ tpc' = "recv_confirm"
  /\ UNCHANGED <<pvars, xvars, kind, name, chans, loadErr, pending, after, rpanic, stream,
                 src, terr, tpanic, written, mainI, result, hist>>

---------------------------------------------------------------------------
\* Reader goroutine: csv.Reader.Read / mon.Reader.Read inside the go func of
\* Producer.HTML.  Both readers share the control flow; they differ in
\* ReadOutcome, LoadName and TypeName.

\* Variant: the reader confirms with nil whatever Load returned.
ConfirmValueAlwaysNil(err) == Nil

\* Value the reader puts on the confirm channel for Load's error.
ConfirmValue(err) == IF err # Nil THEN err ELSE Nil

\* Variant: the `return` after `confirm <- err` is missing.
AfterConfirmNoReturn(err) == "layout"

\* Where Read goes once the confirm value was taken: `return` after a Load
\* error, readLayout otherwise.
AfterConfirm(err) == IF err # Nil THEN "done_nil" ELSE "layout"

\* Where the goroutine goes when Read has ended: `done <- nil` after a
\* return, the deferred closes directly when Read panicked.
ReadEnded(rp) == IF rp = NoPanic THEN "done_nil" ELSE "close_rows"

\* f, err := rd.ld.Load(name + suffix)
ReaderLoad ==
  /\ rpc = "load"
  /\ \E o \in {"ok", "notexist", "fail", "panic"} :
       /\ loadErr' = CASE o = "notexist" -> ErrNotExist
                       [] o = "fail" -> ErrLoad
                       [] OTHER -> Nil
       /\ stream' = IF o = "ok" THEN "open" ELSE stream
       /\ rpanic' = IF o = "panic" THEN ReaderPayload ELSE rpanic
       /\ rpc' = IF o = "panic" THEN ReadEnded(ReaderPayload) ELSE "confirm"
       /\ exitPath' = IF o = "panic" THEN "panic" ELSE exitPath
  /\ UNCHANGED <<pvars, xvars, kind, name, chans, pending, after, src, tvars, mvars,
                 confirmSent, rowsSent, rendered, drained, received,
                 executed, sawClose>>

\* confirm <- err  /  confirm <- nil : the value is offered
ReaderConfirm ==
  /\ rpc = "confirm"
  /\ confirm.buf = <<>> /\ ~confirm.closed
  /\ confirm' = [confirm EXCEPT !.buf = <<ConfirmValue(loadErr)>>]
  /\ confirmSent' = Append(confirmSent, ConfirmValue(loadErr))
  /\ rpc' = "confirm_wait"
  /\ UNCHANGED <<pvars, xvars, kind, name, rows, stopRead, done, doneCap, loadErr, pending,
                 after, rpanic, stream, src, tvars, mvars, rowsSent, rendered,
                 drained, received, exitPath, executed, sawClose>>

\* the confirm send completes once the value was taken
ReaderConfirmed ==
  /\ rpc = "confirm_wait"
  /\ confirm.buf = <<>>
  /\ rpc' = AfterConfirm(loadErr)
  /\ exitPath' = IF loadErr # Nil THEN "loaderr" ELSE exitPath
  /\ UNCHANGED <<pvars, xvars, kind, name, chans, loadErr, pending, after, rpanic, stream,
                 src, tvars, mvars, confirmSent, rowsSent, rendered, drained,
                 received, executed, sawClose>>

\* Variant: the `if err != io.EOF` guard is missing, so an empty stream is
\* reported as a header failure too.
ReaderLayoutNoEofGuard ==
  /\ rpc = "layout"
  /\ \E item \in ItemsAt(kind, src) :
       LET o == ReadOutcome(kind, item) IN
       /\ src' = Append(src, item)
       /\ rpanic' = IF o = "panic" THEN ReaderPayload ELSE rpanic
       /\ pending' = IF o \in {"err", "eof"} THEN ErrorRow(columnParseError)
                     ELSE pending
       /\ after' = IF o \in {"err", "eof"} THEN "close" ELSE after
       /\ rpc' = CASE o = "ok" -> "select"
                   [] o \in {"err", "eof"} -> "send"
                   [] OTHER -> "close"
       /\ exitPath' = CASE o = "ok" -> exitPath
                        [] o = "err" -> "header"
                        [] o = "eof" -> "empty"
                        [] OTHER -> "panic"
  /\ UNCHANGED <<pvars, xvars, kind, name, chans, loadErr, stream, tvars, mvars,
                 confirmSent, rowsSent, rendered, drained, received,
                 executed, sawClose>>

\* lt, err := readLayout(r) and the `if err != nil` block after it
ReaderLayout ==
  /\ rpc = "layout"
  /\ \E item \in ItemsAt(kind, src) :
       LET o == ReadOutcome(kind, item) IN
       /\ src' = Append(src, item)
       /\ rpanic' = IF o = "panic" THEN ReaderPayload ELSE rpanic
       /\ pending' = IF o = "err" THEN ErrorRow(columnParseError) ELSE pending
       /\ after' = IF o = "err" THEN "close" ELSE after
       /\ rpc' = CASE o = "ok" -> "select"
                   [] o = "err" -> "send"
                   [] OTHER -> "close"
       /\ exitPath' = CASE o = "ok" -> exitPath
                        [] o = "err" -> "header"
                        [] o = "eof" -> "empty"
                        [] OTHER -> "panic"
  /\ UNCHANGED <<pvars, xvars, kind, name, chans, loadErr, stream, tvars, mvars,
                 confirmSent, rowsSent, rendered, drained, received,
                 executed, sawClose>>

\* Variant: the loop never looks at stop.
ReaderSelectIgnoresStop ==
  /\ rpc = "select"
  /\ rpc' = "readrow"
  /\ UNCHANGED <<pvars, xvars, kind, name, chans, loadErr, pending, after, rpanic, stream,
                 src, tvars, mvars, hist>>

\* Variant: the stream is closed at the end of the loop instead of by
\* defer, so the return on stop skips the Close.
ReaderSelectNoClose ==
  /\ rpc = "select"
  /\ rpc' = IF stopRead THEN ReadEnded(rpanic) ELSE "readrow"
  /\ exitPath' = IF stopRead THEN "stop" ELSE exitPath
  /\ UNCHANGED <<pvars, xvars, kind, name, chans, loadErr, pending, after, rpanic, stream,
                 src, tvars, mvars, confirmSent, rowsSent, rendered, drained,
                 received, executed, sawClose>>

\* select { case <-stop: return; default: ... }
ReaderSelect ==
  /\ rpc = "select"
  /\ rpc' = IF stopRead THEN "close" ELSE "readrow"
  /\ exitPath' = IF stopRead THEN "stop" ELSE exitPath
  /\ UNCHANGED <<pvars, xvars, kind, name, chans, loadErr, pending, after, rpanic, stream,
                 src, tvars, mvars, confirmSent, rowsSent, rendered, drained,
                 received, executed, sawClose>>

\* Variant: the `return` after sending the "Invalid row" row is missing,
\* so the loop goes on reading.
ReaderReadRowNoReturn ==
  /\ rpc = "readrow"
  /\ \E item \in ItemsAt(kind, src) :
       LET o == ReadOutcome(kind, item) IN
       /\ src' = Append(src, item)
       /\ rpanic' = IF o = "panic" THEN ReaderPayload ELSE rpanic
       /\ pending' = CASE o = "ok" -> DataRow(item)
                       [] o = "err" -> ErrorRow(rowReadError)
                       [] OTHER -> pending
       /\ after' = IF o \in {"ok", "err"} THEN "select" ELSE after
       /\ rpc' = IF o \in {"ok", "err"} THEN "send" ELSE "close"
       /\ exitPath' = CASE o = "ok" -> exitPath
                        [] o = "err" -> "rowfail"
                        [] o = "eof" -> "eof"
                        [] OTHER -> "panic"
  /\ UNCHANGED <<pvars, xvars, kind, name, chans, loadErr, stream, tvars, mvars,
                 confirmSent, rowsSent, rendered, drained, received,
                 executed, sawClose>>

\* row, err := readRow(r, lt) and the two `if` after it
ReaderReadRow ==
  /\ rpc = "readrow"
  /\ \E item \in ItemsAt(kind, src) :
       LET o == ReadOutcome(kind, item) IN
       /\ src' = Append(src, item)
       /\ rpanic' = IF o = "panic" THEN ReaderPayload ELSE rpanic
       /\ pending' = CASE o = "ok" -> DataRow(item)
                       [] o = "err" -> ErrorRow(rowReadError)
                       [] OTHER -> pending
       /\ after' = CASE o = "ok" -> "select"
                     [] o = "err" -> "close"
                     [] OTHER -> after
       /\ rpc' = IF o \in {"ok", "err"} THEN "send" ELSE "close"
       /\ exitPath' = CASE o = "ok" -> exitPath
                        [] o = "err" -> "rowfail"
                        [] o = "eof" -> "eof"
                        [] OTHER -> "panic"
  /\ UNCHANGED <<pvars, xvars, kind, name, chans, loadErr, stream, tvars, mvars,
                 confirmSent, rowsSent, rendered, drained, received,
                 executed, sawClose>>

\* rows <- row : the row is offered
ReaderSend ==
  /\ rpc = "send"
  /\ rows.buf = <<>> /\ ~rows.closed
  /\ rows' = [rows EXCEPT !.buf = <<pending>>]
  /\ rowsSent' = Append(rowsSent, pending)
  /\ rpc' = "send_wait"
  /\ UNCHANGED <<pvars, xvars, kind, name, confirm, stopRead, done, doneCap, loadErr,
                 pending, after, rpanic, stream, src, tvars, mvars,
                 confirmSent, rendered, drained, received, exitPath,
                 executed, sawClose>>

\* Variant: after a row the loop reads on without the stop check.
ReaderSentSkipsCheck ==
  /\ rpc = "send_wait"
  /\ rows.buf = <<>>
  /\ rpc' = IF after = "select" THEN "readrow" ELSE after
  /\ UNCHANGED <<pvars, xvars, kind, name, chans, loadErr, pending, after, rpanic, stream,
                 src, tvars, mvars, hist>>

\* the row send completes once the row was taken
ReaderSent ==
  /\ rpc = "send_wait"
  /\ rows.buf = <<>>
  /\ rpc' = after
  /\ UNCHANGED <<pvars, xvars, kind, name, chans, loadErr, pending, after, rpanic, stream,
                 src, tvars, mvars, hist>>

\* Variant: Read ends without closing the byte stream.
ReaderCloseSkipped ==
  /\ rpc = "close"
  /\ rpc' = ReadEnded(rpanic)
  /\ UNCHANGED <<pvars, xvars, kind, name, chans, loadErr, pending, after, rpanic, stream,
                 src, tvars, mvars, hist>>

\* defer f.Close()
ReaderClose ==
  /\ rpc = "close"
  /\ stream' = "closed"
  /\ rpc' = ReadEnded(rpanic)
  /\ UNCHANGED <<pvars, xvars, kind, name, chans, loadErr, pending, after, rpanic, src,
                 tvars, mvars, hist>>

\* done <- nil
ReaderDoneNil ==
  /\ rpc = "done_nil"
  /\ Len(done) < doneCap
  /\ done' = Append(done, Nil)
  /\ rpc' = "close_rows"
  /\ UNCHANGED <<pvars, xvars, kind, name, confirm, rows, stopRead, doneCap, loadErr,
                 pending, after, rpanic, stream, src, tvars, mvars, hist>>

\* deferred close(rows)
ReaderCloseRows ==
  /\ rpc = "close_rows"
  /\ rows' = [rows EXCEPT !.closed = TRUE]
  /\ rpc' = "close_confirm"
  /\ UNCHANGED <<pvars, xvars, kind, name, confirm, stopRead, done, doneCap, loadErr,
                 pending, after, rpanic, stream, src, tvars, mvars, hist>>

\* Variant: doneIfPanic reports whether or not there was a panic.
ReaderCloseConfirmAlwaysReports ==
  /\ rpc = "close_confirm"
  /\ confirm' = [confirm EXCEPT !.closed = TRUE]
  /\ rpc' = "recover"
  /\ UNCHANGED <<pvars, xvars, kind, name, rows, stopRead, done, doneCap, loadErr,
                 pending, after, rpanic, stream, src, tvars, mvars, hist>>

\* deferred close(confirm)
ReaderCloseConfirm ==
  /\ rpc = "close_confirm"
  /\ confirm' = [confirm EXCEPT !.closed = TRUE]
  /\ rpc' = IF rpanic = NoPanic THEN "end" ELSE "recover"
  /\ UNCHANGED <<pvars, xvars, kind, name, rows, stopRead, done, doneCap, loadErr,
                 pending, after, rpanic, stream, src, tvars, mvars, hist>>

\* deferred doneIfPanic("Reader %T paniced") with a recovered panic
ReaderRecover ==
  /\ rpc = "recover"
  /\ Len(done) < doneCap
  /\ done' = Append(done, doneIfPanic(ReaderHelper(kind), name, rpanic))
  /\ rpc' = "end"
  /\ UNCHANGED <<pvars, xvars, kind, name, confirm, rows, stopRead, doneCap, loadErr,
                 pending, after, rpanic, stream, src, tvars, mvars, hist>>

ReaderNext ==
  \/ ReaderLoad \/ ReaderConfirm \/ ReaderConfirmed \/ ReaderLayout
  \/ ReaderSelect \/ ReaderReadRow \/ ReaderSend \/ ReaderSent
  \/ ReaderClose \/ ReaderDoneNil \/ ReaderCloseRows \/ ReaderCloseConfirm
  \/ ReaderRecover

---------------------------------------------------------------------------
\* Rendering goroutine of Producer.HTML.  htmlTemplate.Execute is the
\* external renderer: it writes a prologue, ranges over rows writing one
\* piece per row, and writes an epilogue; every write can succeed, return
\* an error or panic.

\* Variant: only a closed confirm channel stops the rendering goroutine;
\* a confirmed error is not looked at.
RenderRecvConfirmIgnoresErr ==
  /\ tpc = "recv_confirm"
  /\ confirm.buf # <<>> \/ confirm.closed
  /\ LET ok == confirm.buf # <<>>
         err == IF ok THEN Head(confirm.buf) ELSE Nil
     IN /\ confirm' = [confirm EXCEPT !.buf = <<>>]
        /\ terr' = err
        /\ tpc' = IF ~ok THEN "done_early" ELSE "exec_prolog"
  /\ UNCHANGED <<pvars, xvars, kind, name, rows, stopRead, done, doneCap, rvars, tpanic,
                 written, mvars, hist>>

\* if err, ok := <-confirm; !ok || err != nil { done <- err; return }
RenderRecvConfirm ==
  /\ tpc = "recv_confirm"
  /\ confirm.buf # <<>> \/ confirm.closed
  /\ LET ok == confirm.buf # <<>>
         err == IF ok THEN Head(confirm.buf) ELSE Nil
     IN /\ confirm' = [confirm EXCEPT !.buf = <<>>]
        /\ terr' = err
        /\ tpc' = IF ~ok \/ err # Nil THEN "done_early" ELSE "exec_prolog"
  /\ UNCHANGED <<pvars, xvars, kind, name, rows, stopRead, done, doneCap, rvars, tpanic,
                 written, mvars, hist>>

\* Variant: the stop and the drain are deferred before the confirmation
\* is looked at.
RenderDoneEarlyStops ==
  /\ tpc = "done_early"
  /\ Len(done) < doneCap
  /\ done' = Append(done, terr)
  /\ tpc' = "stop"
  /\ UNCHANGED <<pvars, xvars, kind, name, confirm, rows, stopRead, doneCap, rvars, terr,
                 tpanic, written, mvars, hist>>

\* done <- err; return   (confirmation failed, nothing deferred yet)
RenderDoneEarly ==
  /\ tpc = "done_early"
  /\ Len(done) < doneCap
  /\ done' = Append(done, terr)
  /\ tpc' = "end"
  /\ UNCHANGED <<pvars, xvars, kind, name, confirm, rows, stopRead, doneCap, rvars, terr,
                 tpanic, written, mvars, hist>>

\* One write of Execute: the prologue, one row, or the epilogue.
RenderWrite ==
  /\ tpc \in {"exec_prolog", "exec_row", "exec_epilog"}
  /\ executed' = TRUE
  /\ \E o \in {"ok", "err", "panic"} :
       /\ written' = IF o = "ok" THEN written + 1 ELSE written
       /\ terr' = IF o = "err" THEN ErrWrite ELSE Nil
       /\ tpanic' = IF o = "panic" THEN TemplatePayload ELSE tpanic
       /\ tpc' = CASE o = "panic" -> "stop"
                   [] o = "err" -> "done_send"
                   [] OTHER -> IF tpc = "exec_epilog" THEN "done_send"
                               ELSE "exec_range"
  /\ UNCHANGED <<pvars, xvars, kind, name, chans, rvars, mvars, confirmSent, rowsSent,
                 rendered, drained, received, exitPath, sawClose>>

\* {{range .Rows}}: receive the next row, or see the channel closed
RenderRange ==
  /\ tpc = "exec_range"
  /\ rows.buf # <<>> \/ rows.closed
  /\ IF rows.buf # <<>>
     THEN /\ rendered' = Append(rendered, Head(rows.buf))
          /\ rows' = [rows EXCEPT !.buf = <<>>]
          /\ tpc' = "exec_row"
          /\ UNCHANGED sawClose
     ELSE /\ sawClose' = TRUE
          /\ tpc' = "exec_epilog"
          /\ UNCHANGED <<rendered, rows>>
  /\ UNCHANGED <<pvars, xvars, kind, name, confirm, stopRead, done, doneCap, rvars, terr,
                 tpanic, written, mvars, confirmSent, rowsSent, drained,
                 received, exitPath, executed>>

\* done <- p.htmlTemplate.Execute(w, data)
RenderDone ==
  /\ tpc = "done_send"
  /\ Len(done) < doneCap
  /\ done' = Append(done, terr)
  /\ tpc' = "stop"
  /\ UNCHANGED <<pvars, xvars, kind, name, confirm, rows, stopRead, doneCap, rvars, terr,
                 tpanic, written, mvars, hist>>

\* deferred close(stopRead)
RenderStop ==
  /\ tpc = "stop"
  /\ stopRead' = TRUE
  /\ tpc' = "drain"
  /\ UNCHANGED <<pvars, xvars, kind, name, confirm, rows, done, doneCap, rvars, terr,
                 tpanic, written, mvars, hist>>

\* Variant: stop is raised but the rows are not drained.
RenderNoDrain ==
  /\ tpc = "drain"
  /\ tpc' = IF tpanic = NoPanic THEN "end" ELSE "recover"
  /\ UNCHANGED <<pvars, xvars, kind, name, chans, rvars, terr, tpanic, written, mvars,
                 hist>>

\* Variant: the drain is not deferred behind Execute but runs beside it,
\* so it takes rows the template is still ranging over.
RenderDrainEarly ==
  /\ tpc \in {"drain", "exec_range"}
  /\ rows.buf # <<>> \/ (rows.closed /\ tpc = "drain")
  /\ IF rows.buf # <<>>
     THEN /\ drained' = Append(drained, Head(rows.buf))
          /\ rows' = [rows EXCEPT !.buf = <<>>]
          /\ UNCHANGED tpc
     ELSE /\ tpc' = IF tpanic = NoPanic THEN "end" ELSE "recover"
          /\ UNCHANGED <<drained, rows>>
  /\ UNCHANGED <<pvars, xvars, kind, name, confirm, stopRead, done, doneCap, rvars, terr,
                 tpanic, written, mvars, confirmSent, rowsSent, rendered,
                 received, exitPath, executed, sawClose>>

\* deferred for _ = range rows {}
RenderDrain ==
  /\ tpc = "drain"
  /\ rows.buf # <<>> \/ rows.closed
  /\ IF rows.buf # <<>>
     THEN /\ drained' = Append(drained, Head(rows.buf))
          /\ rows' = [rows EXCEPT !.buf = <<>>]
          /\ UNCHANGED tpc
     ELSE /\ tpc' = IF tpanic = NoPanic THEN "end" ELSE "recover"
          /\ UNCHANGED <<drained, rows>>
  /\ UNCHANGED <<pvars, xvars, kind, name, confirm, stopRead, done, doneCap, rvars, terr,
                 tpanic, written, mvars, confirmSent, rowsSent, rendered,
                 received, exitPath, executed, sawClose>>

\* deferred doneIfPanic("Template paniced") with a recovered panic
RenderRecover ==
  /\ tpc = "recover"
  /\ Len(done) < doneCap
  /\ done' = Append(done, doneIfPanic(TemplateHelper, name, tpanic))
  /\ tpc' = "end"
  /\ UNCHANGED <<pvars, xvars, kind, name, confirm, rows, stopRead, doneCap, rvars, terr,
                 tpanic, written, mvars, hist>>

RenderNext ==
  \/ RenderRecvConfirm \/ RenderDoneEarly \/ RenderWrite \/ RenderRange
  \/ RenderDone \/ RenderStop \/ RenderDrain \/ RenderRecover

---------------------------------------------------------------------------
\* waitForDone

\* Variant: only the first failure is kept.
waitFoldFirstOnly(res, err) ==
  IF err # Nil /\ res = Nil THEN err ELSE res

\* Variant: a later failure is put in front of the earlier ones.
waitFoldReversed(res, err) ==
  IF err # Nil
  THEN IF res = Nil THEN err ELSE Compound(err, res)
  ELSE res

\* body of the loop: fold one received outcome into result
waitFold(res, err) ==
  IF err # Nil
  THEN IF res = Nil THEN err ELSE Compound(res, err)
  ELSE res

\* one iteration: err := <-done
waitForDoneRecv ==
  /\ mpc = "wait"
  /\ mainI < doneCap
  /\ done # <<>>
  /\ result' = waitFold(result, Head(done))
  /\ received' = Append(received, Head(done))
  /\ done' = Tail(done)
  /\ mainI' = mainI + 1
  /\ UNCHANGED <<pvars, xvars, kind, name, confirm, rows, stopRead, doneCap, rvars, tvars,
                 mpc, confirmSent, rowsSent, rendered, drained, exitPath,
                 executed, sawClose>>

\* i == cap(done): return result
waitForDoneReturn ==
  /\ mpc = "wait"
  /\ mainI >= doneCap
  /\ mpc' = "returned"
  /\ UNCHANGED <<pvars, xvars, kind, name, chans, rvars, tvars, mainI, result, hist>>

MainNext == HTMLStart \/ waitForDoneRecv \/ waitForDoneReturn

---------------------------------------------------------------------------
Next == ReaderNext \/ RenderNext \/ MainNext

Spec == Init /\ [][Next]_vars

\* The Go scheduler runs every goroutine that can take a step.
FairSpec ==
  Spec /\ WF_vars(ReaderNext) /\ WF_vars(RenderNext) /\ WF_vars(MainNext)

\* waitForDone on its own: a done channel of any capacity up to MaxDoneCap,
\* already filled, as in TestWaitForDone_*.
Outcomes == {Nil, ErrNotExist, ErrLoad, ErrWrite}

WaitInit ==
  /\ kind \in Kinds
  /\ name \in Names
  /\ confirm = EmptyChan
  /\ rows = EmptyChan
  /\ stopRead = FALSE
  /\ doneCap \in 1..MaxDoneCap
  /\ done \in [1..doneCap -> Outcomes]
  /\ rpc = "idle" /\ loadErr = Nil /\ pending = ErrorRow("") /\ after = "none"
  /\ rpanic = NoPanic /\ stream = "none" /\ src = <<>>
  /\ tpc = "idle" /\ terr = Nil /\ tpanic = NoPanic /\ written = 0
  /\ mpc = "wait" /\ mainI = 0 /\ result = Nil
  /\ confirmSent = <<>> /\ rowsSent = <<>> /\ rendered = <<>>
  /\ drained = <<>> /\ received = <<>> /\ exitPath = "none"
  /\ executed = FALSE /\ sawClose = FALSE
  /\ ParserIdle /\ MuxIdle

WaitNext == waitForDoneRecv \/ waitForDoneReturn

WaitSpec == WaitInit /\ [][WaitNext]_vars

---------------------------------------------------------------------------
\* Vocabulary of the properties.

\* Read has ended (returned or panicked); the goroutine is in its epilogue.
ReadOver == rpc \in {"done_nil", "close_rows", "close_confirm", "recover", "end"}
ReadReturned == ReadOver /\ rpanic = NoPanic
ReadRunning == rpc \in {"layout", "select", "readrow", "send", "send_wait"}
LoadSucceeded == stream # "none"
LoadFailed == loadErr # Nil

IsPrefix(s, t) == Len(s) <= Len(t) /\ s = SubSeq(t, 1, Len(s))

\* C1: Read sends at most one value on confirm, exactly one once it has
\* returned, always before the first row; the value is Load's error, and
\* it is nil exactly when Load succeeded.
C1_ConfirmOnceFirst ==
  /\ Len(confirmSent) <= 1
  /\ rowsSent # <<>> => Len(confirmSent) = 1
  /\ src # <<>> => Len(confirmSent) = 1 /\ confirm.buf = <<>>
  /\ ReadReturned => Len(confirmSent) = 1
  /\ Len(confirmSent) = 1 =>
       /\ confirmSent[1] = loadErr
       /\ confirmSent[1] = Nil <=> LoadSucceeded

C1_Witness ==
  /\ ReadReturned
  /\ confirmSent = <<Nil>>
  /\ Len(rowsSent) >= 2

\* C2: after a failed Load the reader offers exactly that error on confirm
\* and does nothing else: no row, no read of a stream, no stop check; when
\* the value is taken Read returns.
C2_LoadErrorOnlyConfirms ==
  LoadFailed =>
    /\ rpanic = NoPanic /\ stream = "none" /\ src = <<>>
    /\ rowsSent = <<>> /\ rows.buf = <<>>
    /\ rpc \in {"confirm", "confirm_wait", "done_nil", "close_rows",
                "close_confirm", "end"}
    /\ confirmSent = IF rpc = "confirm" THEN <<>> ELSE <<loadErr>>
    /\ (ReadOver => exitPath = "loaderr")

C2_Witness ==
  /\ loadErr = ErrNotExist
  /\ rpc = "end"
  /\ confirmSent = <<ErrNotExist>>
  /\ rowsSent = <<>>

\* C3: when the reader confirms with an error, HTML returns that very
\* error value, Execute is never called and nothing is written.
ConfirmedError == confirmSent # <<>> /\ confirmSent[1] # Nil

C3_ResolutionErrorReturned ==
  ConfirmedError =>
    /\ ~executed /\ written = 0 /\ rendered = <<>> /\ ~stopRead
    /\ tpc \in {"recv_confirm", "done_early", "end"}
    /\ mpc = "returned" => result = confirmSent[1]

C3_Witness ==
  /\ confirmSent = <<ErrNotExist>>
  /\ mpc = "returned"
  /\ result.kind = "notexist"
  /\ written = 0

\* The error HTML is to report for a panic of Read, spelled out.
ReaderPanicMsg ==
  <<"Reader ", IF kind = "csv" THEN "*csv.Reader" ELSE "*mon.Reader",
    " paniced", " on ", name, ": ", rpanic>>
TemplatePanicMsg == <<"Template paniced", " on ", name, ": ", tpanic>>

\* What the rendering goroutine reports on done.
RenderOutcomeMsg == IF tpanic # NoPanic THEN TemplatePanicMsg ELSE terr.msg
RenderFailed == tpanic # NoPanic \/ terr # Nil

\* C4 as stated: whenever Read panicked, HTML returns the single error
\* "Reader <type> paniced on <name>: <payload>", and nothing is written
\* when the panic came before the confirmation.
C4_Original ==
  rpanic # NoPanic =>
    /\ mpc = "returned" => result.msg = ReaderPanicMsg
    /\ confirmSent = <<>> => written = 0

\* C4 amended: a panic of Read is recovered and HTML returns; the result
\* is the reader's fault message alone when the rendering side reports no
\* failure (always so when the panic came before the confirmation, and then
\* nothing is written), and otherwise the compound of the two failures in
\* the order they arrived.
C4_PanicInv ==
  rpanic # NoPanic =>
    /\ confirmSent = <<>> => written = 0 /\ ~executed /\ ~RenderFailed
    /\ mpc = "returned" =>
         /\ result.kind = "plain"
         /\ ~RenderFailed => result.msg = ReaderPanicMsg
         /\ RenderFailed =>
              IF received[1].msg = ReaderPanicMsg
              THEN result.msg =
                     ReaderPanicMsg \o <<"; [add] ">> \o RenderOutcomeMsg
              ELSE result.msg =
                     RenderOutcomeMsg \o <<"; [add] ">> \o ReaderPanicMsg

C4_ReaderPanicReported ==
  /\ [] C4_PanicInv
  /\ (rpanic # NoPanic) ~> (mpc = "returned" /\ rpc = "end")

C4_Witness ==
  /\ rpanic # NoPanic
  /\ confirmSent = <<>>
  /\ mpc = "returned"
  /\ result.msg = ReaderPanicMsg

\* C5: once Execute has ended while Read is still running, the stop signal
\* is raised and the rows are drained, so the reader leaves every row send
\* and everything terminates: Read ends with its stream closed, rows is
\* closed, both goroutines end and HTML returns.
ExecuteEnded ==
  executed /\ tpc \in {"done_send", "stop", "drain", "recover", "end"}
AllTerminated ==
  /\ rpc = "end" /\ tpc = "end" /\ mpc = "returned"
  /\ stopRead /\ rows.closed /\ rows.buf = <<>> /\ stream = "closed"

C5_EarlyStopTerminates ==
  /\ (ExecuteEnded /\ ReadRunning) ~> AllTerminated
  /\ (rpc = "send_wait") ~> (rpc # "send_wait")

C5_Witness ==
  /\ ExecuteEnded /\ ~sawClose
  /\ stopRead
  /\ rpc = "send_wait" /\ rows.buf # <<>>

\* C6: a renderer that ranged over rows until it was closed has received
\* exactly the rows the reader sent, in order, and the close came after
\* Read had ended; at any time the rows received are a prefix of those sent.
C6_RowsInOrder ==
  /\ IsPrefix(rendered \o drained, rowsSent)
  /\ Len(rowsSent) <= Len(rendered) + Len(drained) + Len(rows.buf)
  /\ sawClose => rendered = rowsSent /\ drained = <<>> /\ ReadOver

C6_Witness ==
  /\ sawClose
  /\ Len(rendered) >= 2
  /\ rendered[1] # rendered[2]
  /\ tpc = "end"

\* C7: waitForDone receives exactly cap(done) outcomes; the result is nil
\* when all are nil, the one error when one is not nil, and otherwise a
\* compound whose message is the messages of the non-nil outcomes in the
\* order received, joined by "; [add] ".
NonNil(es) == SelectSeq(es, LAMBDA e : e # Nil)

RECURSIVE JoinMsgs(_)
JoinMsgs(es) ==
  IF Len(es) = 1 THEN es[1].msg
  ELSE es[1].msg \o <<"; [add] ">> \o JoinMsgs(Tail(es))

C7_WaitForDoneAggregates ==
  /\ Len(received) = mainI /\ mainI <= doneCap
  /\ mpc = "returned" =>
       /\ Len(received) = doneCap
       /\ LET nn == NonNil(received) IN
            CASE nn = <<>> -> result = Nil
              [] Len(nn) = 1 -> result = nn[1]
              [] OTHER -> result.kind = "plain" /\ result.msg = JoinMsgs(nn)

C7_Witness ==
  /\ mpc = "returned"
  /\ Len(NonNil(received)) >= 3
  /\ received[1] # received[2]

\* C8 as stated: when both units panic, the compound error has the
\* reader's message first and the template's second.
BothFault == rpanic # NoPanic /\ tpanic # NoPanic

C8_Original ==
  BothFault /\ mpc = "returned" =>
    result.msg = ReaderPanicMsg \o <<"; [add] ">> \o TemplatePanicMsg

\* C8 amended: when both units panic, the result is one compound error
\* holding both fault messages joined by "; [add] ", in the order in which
\* the two reports arrived on done; either may come first.
C8_BothFaultsCompound ==
  BothFault /\ mpc = "returned" =>
    /\ result.kind = "plain"
    /\ \/ /\ received[1].msg = ReaderPanicMsg
          /\ received[2].msg = TemplatePanicMsg
          /\ result.msg =
               ReaderPanicMsg \o <<"; [add] ">> \o TemplatePanicMsg
       \/ /\ received[1].msg = TemplatePanicMsg
          /\ received[2].msg = ReaderPanicMsg
          /\ result.msg =
               TemplatePanicMsg \o <<"; [add] ">> \o ReaderPanicMsg

C8_Witness ==
  /\ BothFault /\ mpc = "returned"
  /\ received[1].msg = TemplatePanicMsg
  /\ received[2].msg = ReaderPanicMsg

\* C9: a stream that Load opened is closed when Read has ended, whatever
\* the exit path, and it is open as long as Read reads or sends.
C9_StreamClosedOnExit ==
  /\ LoadSucceeded /\ ReadOver => stream = "closed"
  /\ ReadRunning => stream = "open"
  /\ rows.buf # <<>> => stream = "open"
  /\ stream = "closed" =>
       ReadOver /\ exitPath \in {"empty", "header", "eof", "rowfail",
                                 "stop", "panic"}

C9_Witness ==
  /\ exitPath = "stop"
  /\ rpc = "end"
  /\ stream = "closed"
  /\ rowsSent # <<>>

\* C10: a stop check that finds the signal raised makes Read return at
\* once, with no further read and no further row; a row is read only after
\* a stop check that found the signal not raised; a row being sent is sent
\* to the end even when the signal is raised meanwhile.
C10_Step ==
  /\ rpc = "select" /\ stopRead /\ rpc' # rpc =>
       rpc' = "close" /\ src' = src /\ rowsSent' = rowsSent
  /\ rpc' = "readrow" /\ rpc # "readrow" => rpc = "select" /\ ~stopRead
  /\ src' # src => rpc \in {"layout", "readrow"}
  /\ rpc = "send" /\ rpc' # rpc => rpc' = "send_wait" /\ rows'.buf = <<pending>>
  /\ rpc = "send_wait" /\ rpc' # rpc => rpc' = after /\ rows.buf = <<>>
  /\ exitPath = "stop" => src' = src /\ rowsSent' = rowsSent

C10_StopCheckedBetweenRows == [][C10_Step]_vars

C10_Witness ==
  /\ exitPath = "stop"
  /\ ReadOver
  /\ Len(src) < MaxReads
  /\ rowsSent # <<>>

\* C11: a row read that fails with anything but end of stream (and, for
\* csv, anything but a field-count mismatch) makes the reader send one
\* "Invalid row" row after the data rows already sent, nothing after it,
\* and return.
RowReadFailed ==
  /\ Len(src) >= 2
  /\ \/ src[Len(src)] = "ioerr"
     \/ kind = "csv" /\ src[Len(src)] = "bad"

C11_InvalidRowEndsStream ==
  /\ RowReadFailed <=> exitPath = "rowfail"
  /\ exitPath = "rowfail" =>
       /\ rpc \in {"send", "send_wait", "close"} \/ ReadReturned
       /\ LET before == [i \in 1..(Len(src) - 2) |->
                           [data |-> src[i + 1], ErrorMessage |-> "nil"]]
              last == [data |-> "", ErrorMessage |-> "Invalid row"]
          IN rowsSent = IF rpc = "send" THEN before ELSE before \o <<last>>

C11_Witness ==
  /\ exitPath = "rowfail"
  /\ rpc = "end"
  /\ Len(rowsSent) = 2
  /\ rowsSent[1].ErrorMessage = "nil"
  /\ rowsSent[2].ErrorMessage = "Invalid row"

\* C13: when the stream ends before a header is read the reader sends no
\* row and returns; when the header read fails otherwise it sends one
\* "Unable to parse columns" row, no data row, and returns.
C13_HeaderHandling ==
  /\ exitPath \in {"empty", "header"} =>
       /\ Len(src) = 1 /\ rpanic = NoPanic
       /\ rpc \in {"send", "send_wait", "close"} \/ ReadReturned
  /\ exitPath = "empty" =>
       /\ rowsSent = <<>> /\ rpc \notin {"send", "send_wait"}
       /\ src[1] = "eof" \/ (kind = "mon" /\ src[1] = "nonl")
  /\ exitPath = "header" =>
       /\ rowsSent = IF rpc = "send" THEN <<>>
                     ELSE <<[data |-> "",
                             ErrorMessage |-> "Unable to parse columns"]>>
       /\ src[1] = "ioerr" \/ (kind = "csv" /\ src[1] = "bad")
  /\ Len(src) = 1 /\ src[1] = "eof" => exitPath = "empty"
  /\ Len(src) = 1 /\ src[1] = "ioerr" => exitPath = "header"

C13_Witness ==
  /\ exitPath = "header"
  /\ rpc = "end"
  /\ Len(rowsSent) = 1
  /\ rowsSent[1].ErrorMessage = "Unable to parse columns"

\* C15: a panic of Execute is recovered in the rendering goroutine, which
\* first raises stop and drains rows until it is closed and only then
\* reports "Template paniced on <name>: <payload>" on done, once; HTML
\* returns.
TemplateReports ==
  Len(SelectSeq(received \o done,
                LAMBDA e : e.msg = <<"Template paniced", " on ", name, ": ",
                                     tpanic>>))

C15_PanicInv ==
  tpanic # NoPanic =>
    /\ tpc \in {"stop", "drain", "recover", "end"}
    /\ tpc \in {"recover", "end"} =>
         stopRead /\ rows.closed /\ rows.buf = <<>>
    /\ TemplateReports = IF tpc = "end" THEN 1 ELSE 0
    /\ rpanic # NoPanic => TemplatePanicMsg # ReaderPanicMsg

C15_TemplatePanicReported ==
  /\ [] C15_PanicInv
  /\ (tpanic # NoPanic) ~> (tpc = "end" /\ mpc = "returned")

C15_Witness ==
  /\ tpanic # NoPanic
  /\ drained # <<>>
  /\ mpc = "returned"
  /\ result.msg = <<"Template paniced", " on ", name, ": ", tpanic>>

---------------------------------------------------------------------------
\* Producer.HTML over a Reader that is neither csv nor mon.  The Producer
\* takes any implementation of the Reader interface; this one returns
\* from Read without sending on confirm, or confirms an error and returns,
\* or panics at once as the test reader of the Producer's tests can.
StubInit ==
  /\ kind = "stub"
  /\ name \in Names
  /\ confirm = EmptyChan
  /\ rows = EmptyChan
  /\ stopRead = FALSE
  /\ done = <<>>
  /\ doneCap = HtmlDoneCap
  /\ rpc = "idle" /\ loadErr = Nil /\ pending = ErrorRow("") /\ after = "none"
  /\ rpanic = NoPanic /\ stream = "none" /\ src = <<>>
  /\ tpc = "idle" /\ terr = Nil /\ tpanic = NoPanic /\ written = 0
  /\ mpc = "html" /\ mainI = 0 /\ result = Nil
  /\ confirmSent = <<>> /\ rowsSent = <<>> /\ rendered = <<>>
  /\ drained = <<>> /\ received = <<>> /\ exitPath = "none"
  /\ executed = FALSE /\ sawClose = FALSE
  /\ ParserIdle /\ MuxIdle

StubRead ==
  /\ rpc = "load"
  /\ kind = "stub"
  /\ \E o \in {"return", "notexist", "fail", "panic"} :
       /\ loadErr' = CASE o = "notexist" -> ErrNotExist
                       [] o = "fail" -> ErrLoad
                       [] OTHER -> Nil
       /\ rpanic' = IF o = "panic" THEN ReaderPayload ELSE rpanic
       /\ rpc' = CASE o = "return" -> ReadEnded(NoPanic)
                   [] o = "panic" -> ReadEnded(ReaderPayload)
                   [] OTHER -> "confirm"
       /\ exitPath' = CASE o = "return" -> "silent"
                        [] o = "panic" -> "panic"
                        [] OTHER -> exitPath
  /\ UNCHANGED <<pvars, xvars, kind, name, chans, pending, after, stream, src,
                 tvars, mvars, confirmSent, rowsSent, rendered, drained,
                 received, executed, sawClose>>

StubNext ==
  \/ HTMLStart \/ StubRead \/ ReaderConfirm \/ ReaderConfirmed
  \/ ReaderDoneNil \/ ReaderCloseRows \/ ReaderCloseConfirm
  \/ ReaderRecover \/ RenderRecvConfirm \/ RenderDoneEarly
  \/ waitForDoneRecv \/ waitForDoneReturn

StubSpec == StubInit /\ [][StubNext]_vars

\* C14: when confirm is closed without a value having been sent, HTML
\* reports a failure and Execute is not called.
ConfirmClosedEmpty == confirm.closed /\ confirmSent = <<>>

C14_Original ==
  ConfirmClosedEmpty /\ mpc = "returned" =>
    /\ result # Nil
    /\ ~executed

---------------------------------------------------------------------------
\* Text handling shared by the two parsers.  A string is a sequence of
\* one-character strings.

UpperCase == <<"A", "B", "C", "D", "E", "F", "G", "H", "I", "J", "K", "L",
               "M", "N", "O", "P", "Q", "R", "S", "T", "U", "V", "W", "X",
               "Y", "Z">>
LowerCase == <<"a", "b", "c", "d", "e", "f", "g", "h", "i", "j", "k", "l",
               "m", "n", "o", "p", "q", "r", "s", "t", "u", "v", "w", "x",
               "y", "z">>

ToLowerChar(c) ==
  IF \E i \in 1..Len(UpperCase) : UpperCase[i] = c
  THEN LowerCase[CHOOSE i \in 1..Len(UpperCase) : UpperCase[i] = c]
  ELSE c

\* strings.ToLower
ToLower(str) == [i \in 1..Len(str) |-> ToLowerChar(str[i])]

Digits == <<"0", "1", "2", "3", "4", "5", "6", "7", "8", "9">>
IsDigit(c) == \E i \in 1..10 : Digits[i] = c
DigitVal(c) == (CHOOSE i \in 1..10 : Digits[i] = c) - 1

RECURSIVE Atoi(_)
Atoi(ds) ==
  IF ds = <<>> THEN 0
  ELSE 10 * Atoi(SubSeq(ds, 1, Len(ds) - 1)) + DigitVal(ds[Len(ds)])

AllDigits(ds) == \A i \in 1..Len(ds) : IsDigit(ds[i])

IsLeap(y) == y % 4 = 0 /\ (y % 100 # 0 \/ y % 400 = 0)

\* DaysIn without the lengths of the months.
DaysInAlways31(m, y) == 31

DaysIn(m, y) ==
  CASE m \in {4, 6, 9, 11} -> 30
    [] m = 2 -> IF IsLeap(y) THEN 29 ELSE 28
    [] OTHER -> 31

\* The date of the digit strings dd, mm, yyyy, as time.Parse checks it.
DateOf(dd, mm, yyyy) ==
  IF AllDigits(dd) /\ AllDigits(mm) /\ AllDigits(yyyy)
  THEN LET d == Atoi(dd)
           m == Atoi(mm)
           y == Atoi(yyyy)
       IN [ok |-> m \in 1..12 /\ d >= 1 /\ d <= DaysIn(m, y),
           y |-> y, m |-> m, d |-> d]
  ELSE [ok |-> FALSE, y |-> 0, m |-> 0, d |-> 0]

NoDate == [ok |-> FALSE, y |-> 0, m |-> 0, d |-> 0]

\* time.Parse("02/01/2006", v)
ParseDMY(v) ==
  IF Len(v) = 10 /\ v[3] = "/" /\ v[6] = "/"
  THEN DateOf(SubSeq(v, 1, 2), SubSeq(v, 4, 5), SubSeq(v, 7, 10))
  ELSE NoDate

\* time.Parse("20060102", v)
ParseYMD(v) ==
  IF Len(v) = 8
  THEN DateOf(SubSeq(v, 7, 8), SubSeq(v, 5, 6), SubSeq(v, 1, 4))
  ELSE NoDate

Pad2(n) == <<Digits[(n \div 10) + 1], Digits[(n % 10) + 1]>>
Pad4(n) == Pad2(n \div 100) \o Pad2(n % 100)

\* t.Format("2006-01-02")
FormatDate(t) == Pad4(t.y) \o <<"-">> \o Pad2(t.m) \o <<"-">> \o Pad2(t.d)

---------------------------------------------------------------------------
\* The csv reader's parsing: readLayout and readRow over records as
\* encoding/csv returns them (a record is a sequence of strings).

MaxCols == 3      \* fields in the header record
MaxFields == 4    \* fields in a data record
MaxCells == 3     \* cells in a fixed-width data line
MaxCalls == 3     \* calls made on one ServeMux

csvName == <<"n", "a", "m", "e">>
csvAddress == <<"a", "d", "d", "r", "e", "s", "s">>
csvPostcode == <<"p", "o", "s", "t", "c", "o", "d", "e">>
csvPhone == <<"p", "h", "o", "n", "e">>
csvCreditLimit == <<"c", "r", "e", "d", "i", "t", " ", "l", "i", "m", "i", "t">>
csvBirthdayKey == <<"b", "i", "r", "t", "h", "d", "a", "y">>

\* lt := layout{name: -1, ...}
csvNoLayout ==
  [name |-> -1, address |-> -1, postcode |-> -1, phone |-> -1,
   creditLimit |-> -1, birthday |-> -1]

\* Variant: an index already found is not overwritten.
csvSetColumnFirst(l, key, i) ==
  CASE key = csvName /\ l.name < 0 -> [l EXCEPT !.name = i]
    [] key = csvAddress /\ l.address < 0 -> [l EXCEPT !.address = i]
    [] key = csvPostcode /\ l.postcode < 0 -> [l EXCEPT !.postcode = i]
    [] key = csvPhone /\ l.phone < 0 -> [l EXCEPT !.phone = i]
    [] key = csvCreditLimit /\ l.creditLimit < 0 ->
         [l EXCEPT !.creditLimit = i]
    [] key = csvBirthdayKey /\ l.birthday < 0 -> [l EXCEPT !.birthday = i]
    [] OTHER -> l

\* switch key { case "name": lt.name = i ... }
csvSetColumn(l, key, i) ==
  CASE key = csvName -> [l EXCEPT !.name = i]
    [] key = csvAddress -> [l EXCEPT !.address = i]
    [] key = csvPostcode -> [l EXCEPT !.postcode = i]
    [] key = csvPhone -> [l EXCEPT !.phone = i]
    [] key = csvCreditLimit -> [l EXCEPT !.creditLimit = i]
    [] key = csvBirthdayKey -> [l EXCEPT !.birthday = i]
    [] OTHER -> l

\* for i, column := range record { key := strings.ToLower(column) ... }
RECURSIVE csvLayoutFrom(_, _, _)
csvLayoutFrom(l, record, i) ==
  IF i >= Len(record) THEN l
  ELSE csvLayoutFrom(csvSetColumn(l, ToLower(record[i + 1]), i), record,
                     i + 1)

\* readLayout on a header record that was read without error
csvReadLayout(record) == csvLayoutFrom(csvNoLayout, record, 0)

\* What csv_enc.Reader.Read hands to readRow for the next piece of input:
\* a record, with ErrFieldCount when its length differs from the header's,
\* or no record and an error (end of stream, a stray quote).
csvEncRead(inp, nfields) ==
  CASE inp.is = "eof" -> [record |-> <<>>, err |-> "EOF"]
    [] inp.is = "quote" -> [record |-> <<>>, err |-> "ErrQuote"]
    [] Len(inp.fields) # nfields ->
         [record |-> inp.fields, err |-> "ErrFieldCount"]
    [] OTHER -> [record |-> inp.fields, err |-> "nil"]

\* Variant: a field-count mismatch is treated like any other error.
isCsvParseErrorNever(err) == FALSE

isCsvParseError(err) == err = "ErrFieldCount"

\* if lt.x >= 0 && lt.x < len(record) { row.X = record[lt.x] }
csvField(record, idx) ==
  IF idx >= 0 /\ idx < Len(record) THEN record[idx + 1] ELSE <<>>

csvBirthday(v) ==
  IF ParseDMY(v).ok THEN FormatDate(ParseDMY(v)) ELSE v

csvEmptyRow ==
  [Name |-> <<>>, Address |-> <<>>, Postcode |-> <<>>, Phone |-> <<>>,
   CreditLimit |-> <<>>, Birthday |-> <<>>]

\* readRow: the row and the error it returns
csvReadRow(read, l) ==
  IF read.err # "nil" /\ ~isCsvParseError(read.err)
  THEN [row |-> csvEmptyRow, err |-> read.err]
  ELSE [row |-> [Name |-> csvField(read.record, l.name),
                 Address |-> csvField(read.record, l.address),
                 Postcode |-> csvField(read.record, l.postcode),
                 Phone |-> csvField(read.record, l.phone),
                 CreditLimit |-> csvField(read.record, l.creditLimit),
                 Birthday |-> csvBirthday(csvField(read.record, l.birthday))],
        err |-> "nil"]

\* Producer.HTML is not running while a parser is looked at on its own.
HtmlIdle(k) ==
  /\ kind = k
  /\ name \in Names
  /\ confirm = EmptyChan
  /\ rows = EmptyChan
  /\ stopRead = FALSE
  /\ done = <<>>
  /\ doneCap = HtmlDoneCap
  /\ rpc = "idle" /\ loadErr = Nil /\ pending = ErrorRow("") /\ after = "none"
  /\ rpanic = NoPanic /\ stream = "none" /\ src = <<>>
  /\ tpc = "idle" /\ terr = Nil /\ tpanic = NoPanic /\ written = 0
  /\ mpc = "off" /\ mainI = 0 /\ result = Nil
  /\ confirmSent = <<>> /\ rowsSent = <<>> /\ rendered = <<>>
  /\ drained = <<>> /\ received = <<>> /\ exitPath = "none"
  /\ executed = FALSE /\ sawClose = FALSE

\* Header fields and field values the csv parser is run on.
CsvHeaderFields ==
  { <<"N", "a", "m", "e">>, <<"N", "A", "M", "E">>,
    <<"A", "d", "d", "r", "e", "s", "s">>,
    <<"A", "d", "d", "r", "e", "s", "s", "1">>,
    <<"B", "i", "r", "t", "h", "d", "a", "y">> }
CsvValues ==
  { <<"x">>, <<"y">>, <<"0", "1", "/", "0", "2", "/", "1", "9", "8", "2">> }

SeqsUpTo(S, n) == UNION { [1..k -> S] : k \in 1..n }

CsvInputs ==
  { [is |-> "rec", fields |-> f] : f \in SeqsUpTo(CsvValues, MaxFields) }
  \cup { [is |-> "eof", fields |-> <<>>], [is |-> "quote", fields |-> <<>>] }

CsvInit ==
  /\ HtmlIdle("csv") /\ MuxIdle
  /\ ppc = "csv_layout"
  /\ hdr \in SeqsUpTo(CsvHeaderFields, MaxCols)
  /\ lt = csvNoLayout
  /\ rec = [record |-> <<>>, err |-> "nil"]
  /\ row = [row |-> csvEmptyRow, err |-> "nil"]

\* lt, err := readLayout(r), the header record having been read
csvLayoutStep ==
  /\ ppc = "csv_layout"
  /\ lt' = csvReadLayout(hdr)
  /\ ppc' = "csv_row"
  /\ UNCHANGED <<hvars, xvars, hdr, rec, row>>

\* row, err := readRow(r, lt) in the loop of Read, for one record: the
\* loop goes on ("csv_loop") when readRow returns no error.
csvRowStep ==
  /\ ppc = "csv_row"
  /\ \E inp \in CsvInputs :
       LET read == csvEncRead(inp, Len(hdr)) IN
       /\ rec' = read
       /\ row' = csvReadRow(read, lt)
       /\ ppc' = IF csvReadRow(read, lt).err = "nil" THEN "csv_loop"
                 ELSE "csv_return"
  /\ UNCHANGED <<hvars, xvars, hdr, lt>>

CsvNext == csvLayoutStep \/ csvRowStep

CsvSpec == CsvInit /\ [][CsvNext]_vars

\* Vocabulary of the csv properties: the columns of the header whose
\* lower-cased text is a known name, and the last of them (counted from 0),
\* or -1.
CsvColumnsOf(key) == { i \in 0..(Len(hdr) - 1) : ToLower(hdr[i + 1]) = key }
CsvLastColumn(key) ==
  IF CsvColumnsOf(key) = {} THEN -1
  ELSE CHOOSE i \in CsvColumnsOf(key) : \A j \in CsvColumnsOf(key) : j <= i

\* What a row field must hold for the column col of the record.
CsvExpected(col) ==
  IF col >= 0 /\ col < Len(rec.record) THEN rec.record[col + 1] ELSE <<>>

\* C12: a record with another number of fields than the header is no
\* error: readRow returns a data row in which each known column inside the
\* record has the record's value (the birthday in normalized form) and
\* each known column beyond its end is empty, and the loop goes on.
C12_ShortRecordTolerated ==
  rec.err = "ErrFieldCount" =>
    /\ Len(rec.record) # Len(hdr)
    /\ row.err = "nil" /\ ppc = "csv_loop"
    /\ row.row.Name = CsvExpected(CsvLastColumn(csvName))
    /\ row.row.Address = CsvExpected(CsvLastColumn(csvAddress))
    /\ row.row.Postcode = CsvExpected(CsvLastColumn(csvPostcode))
    /\ row.row.Phone = CsvExpected(CsvLastColumn(csvPhone))
    /\ row.row.CreditLimit = CsvExpected(CsvLastColumn(csvCreditLimit))
    /\ LET b == CsvExpected(CsvLastColumn(csvBirthdayKey))
       IN row.row.Birthday =
            IF b = <<"0", "1", "/", "0", "2", "/", "1", "9", "8", "2">>
            THEN <<"1", "9", "8", "2", "-", "0", "2", "-", "0", "1">>
            ELSE b

C12_Witness ==
  /\ rec.err = "ErrFieldCount"
  /\ Len(rec.record) < Len(hdr)
  /\ lt.name = 0 /\ lt.address = 2
  /\ row.row.Name = <<"x">> /\ row.row.Address = <<>>
  /\ ppc = "csv_loop"

\* C20: the layout maps each known name to the last header column whose
\* text equals it without regard to case, and to none when there is no
\* such column; a row field is filled only from its own column, so a
\* header column of another name reaches no row field and an absent name
\* leaves its field empty.
C20_LayoutFromHeader ==
  ppc # "csv_layout" =>
    /\ lt.name = CsvLastColumn(csvName)
    /\ lt.address = CsvLastColumn(csvAddress)
    /\ lt.postcode = CsvLastColumn(csvPostcode)
    /\ lt.phone = CsvLastColumn(csvPhone)
    /\ lt.creditLimit = CsvLastColumn(csvCreditLimit)
    /\ lt.birthday = CsvLastColumn(csvBirthdayKey)
    /\ ppc = "csv_loop" =>
         /\ row.row.Name = CsvExpected(CsvLastColumn(csvName))
         /\ row.row.Address = CsvExpected(CsvLastColumn(csvAddress))
         /\ CsvColumnsOf(csvBirthdayKey) = {} => row.row.Birthday = <<>>
         /\ row.row.Postcode = <<>> /\ row.row.Phone = <<>>
         /\ row.row.CreditLimit = <<>>

C20_Witness ==
  /\ ppc = "csv_loop"
  /\ Len(hdr) = 3
  /\ hdr[1] = <<"N", "a", "m", "e">>
  /\ hdr[2] = <<"A", "d", "d", "r", "e", "s", "s", "1">>
  /\ hdr[3] = <<"N", "A", "M", "E">>
  /\ rec.record = << <<"x">>, <<"y">>, <<"y">> >>
  /\ lt.name = 2 /\ lt.address = -1
  /\ row.row.Name = <<"y">> /\ row.row.Address = <<>>

\* ---- the fixed-width reader (package mon) ----
\* A Go string is a sequence of bytes.  An ASCII character is one byte; the
\* rune U+00F8 of the tests is the two bytes C3 B8.
monOSlash == <<"C3", "B8">>
ContinuationBytes == {"B8"}
Newline == "\n"

\* the byte positions where `for i := range s` starts a rune
RuneStarts(s) == { i \in 1..Len(s) : s[i] \notin ContinuationBytes }

\* utf8.RuneCountInString
RuneCountInString(s) == Cardinality(RuneStarts(s))

\* unicode.IsSpace, on the one-byte runes
IsSpace(b) == b \in {" ", "\t", "\r", Newline}

\* strings.Index, counted from 0; -1 when sub does not occur
Index(s, sub) ==
  LET at == { i \in 1..(Len(s) - Len(sub) + 1) :
                SubSeq(s, i, i + Len(sub) - 1) = sub }
  IN IF at = {} THEN -1
     ELSE (CHOOSE i \in at : \A j \in at : i <= j) - 1

\* strings.TrimSpace
TrimSpace(s) ==
  LET ns == { i \in 1..Len(s) : ~IsSpace(s[i]) }
  IN IF ns = {} THEN <<>>
     ELSE SubSeq(s, CHOOSE i \in ns : \A j \in ns : i <= j,
                    CHOOSE i \in ns : \A j \in ns : j <= i)

\* bufio.Reader.ReadString('\n') on what is left of the file: the text up
\* to and including the delimiter, or the text and io.EOF without one.
monReadString(line) ==
  IF Len(line) > 0 /\ line[Len(line)] = Newline
  THEN [record |-> line, err |-> "nil"]
  ELSE [record |-> line, err |-> "EOF"]

monLabels ==
  << <<"N", "a", "m", "e">>,
     <<"A", "d", "d", "r", "e", "s", "s">>,
     <<"P", "o", "s", "t", "c", "o", "d", "e">>,
     <<"P", "h", "o", "n", "e">>,
     <<"C", "r", "e", "d", "i", "t", " ", "L", "i", "m", "i", "t">>,
     <<"B", "i", "r", "t", "h", "d", "a", "y">> >>

\* the space runes, newline excepted, that follow byte offset from
monSpacesFrom(record, from) ==
  LET stop == { i \in (from + 1)..Len(record) :
                  ~(IsSpace(record[i]) /\ record[i] # Newline) }
  IN IF stop = {} THEN Len(record) - from
     ELSE (CHOOSE i \in stop : \A j \in stop : i <= j) - from - 1

\* findCol(name) of readLayout
monFindCol(record, l, label) ==
  LET idx == Index(record, label) IN
  IF idx >= 0
  THEN LET start == RuneCountInString(SubSeq(record, 1, idx))
           count == RuneCountInString(label)
                      + monSpacesFrom(record, idx + Len(label))
       IN (start :> [name |-> ToLower(label), occupies |-> count]) @@ l
  ELSE l

RECURSIVE monFindCols(_, _, _)
monFindCols(record, l, k) ==
  IF k > Len(monLabels) THEN l
  ELSE monFindCols(record, monFindCol(record, l, monLabels[k]), k + 1)

\* readLayout: the layout and the error it returns
monReadLayout(line) ==
  LET read == monReadString(line) IN
  IF read.err # "nil" THEN [lt |-> <<>>, err |-> read.err]
  ELSE [lt |-> monFindCols(read.record, <<>>, 1), err |-> "nil"]

\* time.Parse("20060102", v) and Format("2006-01-02"), else v
monBirthday(v) ==
  IF ParseYMD(v).ok THEN FormatDate(ParseYMD(v)) ELSE v

\* switch colName { ... } of readRow
monSetField(r, colName, v) ==
  CASE colName = <<"n", "a", "m", "e">> -> [r EXCEPT !.Name = v]
    [] colName = <<"a", "d", "d", "r", "e", "s", "s">> ->
         [r EXCEPT !.Address = v]
    [] colName = <<"p", "o", "s", "t", "c", "o", "d", "e">> ->
         [r EXCEPT !.Postcode = v]
    [] colName = <<"p", "h", "o", "n", "e">> -> [r EXCEPT !.Phone = v]
    [] colName = <<"c", "r", "e", "d", "i", "t", " ", "l", "i", "m", "i", "t">> ->
         [r EXCEPT !.CreditLimit = v]
    [] colName = <<"b", "i", "r", "t", "h", "d", "a", "y">> ->
         [r EXCEPT !.Birthday = monBirthday(v)]
    [] OTHER -> r

\* One iteration of `for i := range record` at the rune that starts at
\* byte offset i; record[colIdx : i+1] ends one byte after that offset.
monRuneStep(record, l, i, st) ==
  LET next == [st EXCEPT !.runeNum = st.runeNum + 1] IN
  IF st.runeNum > st.waitRuneNum
  THEN IF st.runeNum \in DOMAIN l
       THEN [next EXCEPT !.colIdx = i,
                         !.colName = l[st.runeNum].name,
                         !.waitRuneNum =
                            st.runeNum + l[st.runeNum].occupies - 1]
       ELSE next
  ELSE IF st.runeNum = st.waitRuneNum
       THEN [next EXCEPT !.row =
               monSetField(st.row, st.colName,
                           TrimSpace(SubSeq(record, st.colIdx + 1, i + 1)))]
       ELSE next

RECURSIVE monRowLoop(_, _, _, _)
monRowLoop(record, l, i, st) ==
  IF i >= Len(record) THEN st
  ELSE IF (i + 1) \in RuneStarts(record)
       THEN monRowLoop(record, l, i + 1, monRuneStep(record, l, i, st))
       ELSE monRowLoop(record, l, i + 1, st)

\* readRow: the row and the error it returns
monReadRow(line, l) ==
  LET read == monReadString(line) IN
  IF read.err # "nil" THEN [row |-> csvEmptyRow, err |-> read.err]
  ELSE [row |-> monRowLoop(read.record, l, 0,
                  [runeNum |-> 0, waitRuneNum |-> -1, colIdx |-> 0,
                   colName |-> <<>>, row |-> csvEmptyRow]).row,
        err |-> "nil"]

\* Header cells and line cells the fixed-width parser is run on; a header
\* is up to MaxCols cells and a line up to MaxCells cells, with or without
\* the final newline.
MonHeaderCells ==
  { <<"N", "a", "m", "e", " ">>,
    <<"P", "h", "o", "n", "e", " ", " ">>,
    monOSlash \o <<" ">>,
    <<"B", "i", "r", "t", "h", "d", "a", "y">> }
MonLineCells ==
  { <<"a", "b", " ", " ", " ">>,
    <<"a", "b", "c", "d">> \o monOSlash,
    monOSlash \o <<"b", " ", " ", " ", " ", " ">>,
    <<"1", "9", "8", "2", "0", "2", "0", "1">> }

RECURSIVE Flatten(_)
Flatten(ss) == IF ss = <<>> THEN <<>> ELSE Head(ss) \o Flatten(Tail(ss))

MonTexts(cells, n) ==
  { Flatten(c) \o e : c \in SeqsUpTo(cells, n),
                      e \in {<<>>, <<Newline>>} }

MonInit ==
  /\ HtmlIdle("mon") /\ MuxIdle
  /\ ppc = "mon_layout"
  /\ hdr \in MonTexts(MonHeaderCells, MaxCols)
  /\ lt = <<>>
  /\ rec = <<>>
  /\ row = [row |-> csvEmptyRow, err |-> "nil"]

\* layout, err := readLayout(r); Read returns when it fails
monLayoutStep ==
  /\ ppc = "mon_layout"
  /\ lt' = monReadLayout(hdr).lt
  /\ ppc' = IF monReadLayout(hdr).err = "nil" THEN "mon_row"
            ELSE "mon_return"
  /\ UNCHANGED <<hvars, xvars, hdr, rec, row>>

\* row, err := readRow(r, layout) in the loop of Read, for one line: the
\* loop goes on ("mon_loop") when readRow returns no error.
monRowStep ==
  /\ ppc = "mon_row"
  /\ \E line \in MonTexts(MonLineCells, MaxCells) :
       /\ rec' = line
       /\ row' = monReadRow(line, lt)
       /\ ppc' = IF monReadRow(line, lt).err = "nil" THEN "mon_loop"
                 ELSE "mon_return"
  /\ UNCHANGED <<hvars, xvars, hdr, lt>>

MonNext == monLayoutStep \/ monRowStep

MonSpec == MonInit /\ [][MonNext]_vars

\* Vocabulary of the fixed-width properties.  The runes of a text are
\* numbered from 0; MonRuneEnd is the last byte of rune k, MonSpan the
\* bytes of the runes first..last.
MonRuneStart(s, k) ==
  CHOOSE i \in RuneStarts(s) :
    Cardinality({ j \in RuneStarts(s) : j < i }) = k
MonRuneEnd(s, k) ==
  IF k + 1 < RuneCountInString(s) THEN MonRuneStart(s, k + 1) - 1
  ELSE Len(s)
MonSpan(s, first, last) ==
  SubSeq(s, MonRuneStart(s, first), MonRuneEnd(s, last))
MonHasSpan(s, col) == col + lt[col].occupies <= RuneCountInString(s)
MonFieldOf(r, colName) ==
  CASE colName = <<"n", "a", "m", "e">> -> r.Name
    [] colName = <<"p", "h", "o", "n", "e">> -> r.Phone
    [] colName = <<"b", "i", "r", "t", "h", "d", "a", "y">> -> r.Birthday
    [] OTHER -> <<>>
MonExpected(col) ==
  LET v == TrimSpace(MonSpan(rec, col, col + lt[col].occupies - 1))
  IN IF lt[col].name = <<"b", "i", "r", "t", "h", "d", "a", "y">>
     THEN monBirthday(v) ELSE v
MonSpanEndsInOneByte(col) ==
  LET k == col + lt[col].occupies - 1
  IN MonRuneStart(rec, k) = MonRuneEnd(rec, k)

\* C19 as stated: for every column of the layout and every data line that
\* reaches the end of the column, the row field is the text of the line's
\* runes start..start+width-1, trimmed.
C19_Original ==
  ppc = "mon_loop" =>
    \A col \in DOMAIN lt :
      MonHasSpan(rec, col) =>
        MonFieldOf(row.row, lt[col].name) = MonExpected(col)

\* C19, what the code does: the field is that text when the last rune of
\* the span is one byte long; of a longer last rune only the first byte is
\* taken.  The layout is keyed by the rune offset of each label found and
\* a field of no column of the layout stays empty.
C19_SpanUpToLastRune ==
  ppc = "mon_loop" =>
    /\ \A col \in DOMAIN lt :
         MonHasSpan(rec, col) =>
           MonFieldOf(row.row, lt[col].name) =
             IF MonSpanEndsInOneByte(col) THEN MonExpected(col)
             ELSE TrimSpace(SubSeq(rec, MonRuneStart(rec, col),
                      MonRuneStart(rec, col + lt[col].occupies - 1)))
    /\ \A k \in 1..Len(monLabels) :
         (\A col \in DOMAIN lt : lt[col].name # ToLower(monLabels[k])) =>
           MonFieldOf(row.row, ToLower(monLabels[k])) = <<>>
    /\ row.row.Address = <<>> /\ row.row.Postcode = <<>>
    /\ row.row.CreditLimit = <<>>

C19_Witness ==
  /\ ppc = "mon_loop"
  /\ hdr = <<"N", "a", "m", "e", " ", "P", "h", "o", "n", "e", " ", " ", Newline>>
  /\ rec = <<"C3", "B8", "b", " ", " ", " ", " ", " ",
             "a", "b", "c", "d", "C3", "B8", Newline>>
  /\ lt[0].occupies = 5 /\ lt[5].occupies = 7
  /\ row.row.Name = <<"C3", "B8", "b">>
  /\ row.row.Phone = <<"a", "b", "c", "d", "C3">>

\* ---- ServeMux (package producers) ----
\* Goroutines calling AddProducer and ServeHTTP on one ServeMux.
Threads == {1, 2}
MuxKeys == {"key1", "key2"}
BlankKeys == {"", " "}
ProducerIds == {"p1", "p2"}
NoProducer == "nil"

\* strings.TrimSpace(key) of the keys above
TrimKey(key) == IF key \in BlankKeys THEN "" ELSE key

\* A request: whether its path is at least as long as baseURL, the
\* result of strings.Split(rel, "/") when it is, and the method.
Requests ==
  { [short |-> sh, segs |-> sg, method |-> m] :
      sh \in {FALSE}, m \in {"GET", "POST"},
      sg \in { <<"">>, <<"key1">>, <<"key1", "name2">>,
               <<"key2", "name3">>, <<"key1", "name2", "x">> } }
  \cup { [short |-> TRUE, segs |-> <<>>, method |-> "GET"] }

\* The http.ResponseWriter: the status is committed by the first
\* WriteHeader or Write; 0 is a header not written yet.
NewRecorder == [status |-> 0, body |-> <<>>]
WriteHeader(w, code) == IF w.status = 0 THEN [w EXCEPT !.status = code] ELSE w
Write(w, data) == [WriteHeader(w, 200) EXCEPT !.body = @ \o data]

\* http.Error and http.NotFound
HttpError(w, msg, code) == Write(WriteHeader(w, code), msg)
NotFound(w) == HttpError(w, <<"404 page not found">>, 404)

\* the status the client gets once the handler has returned
Code(w) == IF w.status = 0 THEN 200 ELSE w.status

\* mux.log(prefix, v)
muxLog(prefix, v) ==
  <<IF prefix = "panic" THEN "[PANIC]" ELSE "[ERROR]">> \o v

\* os.IsNotExist
IsNotExist(err) == err.kind = "notexist"

IdleCall ==
  [op |-> "none", pc |-> "idle", key |-> "", p |-> NoProducer,
   r |-> [short |-> FALSE, segs |-> <<>>, method |-> ""],
   ok |-> FALSE, ret |-> Nil, w |-> NewRecorder, logged |-> <<>>,
   invoked |-> <<>>, out |-> [wrote |-> FALSE, panic |-> FALSE, err |-> Nil]]

ErrProducer == [kind |-> "plain", msg |-> <<"sad-but-true">>]

\* NewServeMux(baseURL)
MuxInit ==
  /\ HtmlIdle("csv") /\ ParserIdle
  /\ producers = <<>> /\ mu = 0
  /\ calls = [t \in Threads |-> IdleCall]
  /\ ncalls = 0
  /\ firstReg = <<>>

CanCall(t) == calls[t].pc \in {"idle", "done"} /\ ncalls < MaxCalls

ErrNilProducer(key) ==
  [kind |-> "plain", msg |-> <<"Trying to add nil Producer with key", key>>]
ErrBlankKey == [kind |-> "plain", msg |-> <<"Producer's key cannot be blank">>]
ErrRegistered(key) ==
  [kind |-> "plain",
   msg |-> <<"Another Producer with key", key, "is already registered">>]

\* AddProducer(key, p) up to mux.mu.Lock(): the two argument checks
AddProducer(t) ==
  /\ CanCall(t)
  /\ \E key \in MuxKeys \cup BlankKeys, p \in ProducerIds \cup {NoProducer} :
       LET c == [IdleCall EXCEPT !.op = "add", !.key = key, !.p = p] IN
       calls' = [calls EXCEPT ![t] =
         IF p = NoProducer
         THEN [c EXCEPT !.pc = "done", !.ret = ErrNilProducer(key)]
         ELSE IF TrimKey(key) = ""
         THEN [c EXCEPT !.pc = "done", !.ret = ErrBlankKey]
         ELSE [c EXCEPT !.pc = "add_lock"]]
  /\ ncalls' = ncalls + 1
  /\ UNCHANGED <<hvars, pvars, producers, mu, firstReg>>

\* Variant: Lock() that does not wait for the mutex to be free.
AddLockNoWait(t) ==
  /\ calls[t].pc = "add_lock"
  /\ mu' = t
  /\ calls' = [calls EXCEPT ![t].pc = "add_map"]
  /\ UNCHANGED <<hvars, pvars, producers, ncalls, firstReg>>

\* mux.mu.Lock()
AddLock(t) ==
  /\ calls[t].pc = "add_lock"
  /\ mu = 0
  /\ mu' = t
  /\ calls' = [calls EXCEPT ![t].pc = "add_map"]
  /\ UNCHANGED <<hvars, pvars, producers, ncalls, firstReg>>

\* AddMap without the test for an existing key.
AddMapOverwrites(t) ==
  /\ calls[t].pc = "add_map"
  /\ producers' = (calls[t].key :> calls[t].p) @@ producers
  /\ firstReg' = IF calls[t].key \in DOMAIN firstReg THEN firstReg
                 ELSE (calls[t].key :> calls[t].p) @@ firstReg
  /\ calls' = [calls EXCEPT ![t].pc = "add_unlock", ![t].ret = Nil]
  /\ UNCHANGED <<hvars, pvars, mu, ncalls>>

\* if _, exists := mux.producers[key]; exists { return error }
\* mux.producers[key] = p; return nil
AddMap(t) ==
  /\ calls[t].pc = "add_map"
  /\ IF calls[t].key \in DOMAIN producers
     THEN /\ calls' = [calls EXCEPT ![t].pc = "add_unlock",
                                    ![t].ret = ErrRegistered(calls[t].key)]
          /\ UNCHANGED <<producers, firstReg>>
     ELSE /\ producers' = (calls[t].key :> calls[t].p) @@ producers
          /\ firstReg' = IF calls[t].key \in DOMAIN firstReg THEN firstReg
                         ELSE (calls[t].key :> calls[t].p) @@ firstReg
          /\ calls' = [calls EXCEPT ![t].pc = "add_unlock", ![t].ret = Nil]
  /\ UNCHANGED <<hvars, pvars, mu, ncalls>>

\* the deferred mux.mu.Unlock()
AddUnlock(t) ==
  /\ calls[t].pc = "add_unlock"
  /\ mu' = 0
  /\ calls' = [calls EXCEPT ![t].pc = "done"]
  /\ UNCHANGED <<hvars, pvars, producers, ncalls, firstReg>>

\* The deferred function of ServeHTTP after a panic with value v.
muxRecover(c, v) ==
  [c EXCEPT !.pc = "done",
            !.w = HttpError(c.w, <<"Unexpected error occured">>, 500),
            !.logged = muxLog("panic", v)]

\* ServeHTTP(w, r) up to mux.mu.Lock(): rel, segs and the 404 of a path
\* that is not two segments.  Slicing a path shorter than baseURL panics.
ServeHTTP(t) ==
  /\ CanCall(t)
  /\ \E r \in Requests :
       LET c == [IdleCall EXCEPT !.op = "serve", !.r = r] IN
       calls' = [calls EXCEPT ![t] =
         IF r.short
         THEN muxRecover(c, <<"slice bounds out of range">>)
         ELSE IF Len(r.segs) # 2
         THEN [c EXCEPT !.pc = "done", !.w = NotFound(c.w)]
         ELSE [c EXCEPT !.pc = "serve_lock", !.key = r.segs[1]]]
  /\ ncalls' = ncalls + 1
  /\ UNCHANGED <<hvars, pvars, producers, mu, firstReg>>

\* mux.mu.Lock()
ServeLock(t) ==
  /\ calls[t].pc = "serve_lock"
  /\ mu = 0
  /\ mu' = t
  /\ calls' = [calls EXCEPT ![t].pc = "serve_lookup"]
  /\ UNCHANGED <<hvars, pvars, producers, ncalls, firstReg>>

\* p, ok := mux.producers[pk]
ServeLookup(t) ==
  /\ calls[t].pc = "serve_lookup"
  /\ calls' = [calls EXCEPT
       ![t].pc = "serve_unlock",
       ![t].ok = calls[t].key \in DOMAIN producers,
       ![t].p = IF calls[t].key \in DOMAIN producers
                THEN producers[calls[t].key] ELSE NoProducer]
  /\ UNCHANGED <<hvars, pvars, producers, mu, ncalls, firstReg>>

\* Variant: the mutex is kept while the producer runs.
ServeUnlockKeepsLock(t) ==
  /\ calls[t].pc = "serve_unlock"
  /\ LET c == calls[t] IN
     calls' = [calls EXCEPT ![t] =
       IF ~c.ok
       THEN [c EXCEPT !.pc = "done",
                      !.w = HttpError(c.w, <<c.key, "is not supported">>, 501)]
       ELSE IF c.r.method # "GET"
       THEN [c EXCEPT !.pc = "done",
                      !.w = HttpError(c.w, <<c.r.method, "is not allowed">>, 405)]
       ELSE [c EXCEPT !.pc = "serve_html"]]
  /\ UNCHANGED <<hvars, pvars, producers, mu, ncalls, firstReg>>

\* mux.mu.Unlock(), then the 501 and 405 checks
ServeUnlock(t) ==
  /\ calls[t].pc = "serve_unlock"
  /\ mu' = 0
  /\ LET c == calls[t] IN
     calls' = [calls EXCEPT ![t] =
       IF ~c.ok
       THEN [c EXCEPT !.pc = "done",
                      !.w = HttpError(c.w, <<c.key, "is not supported">>, 501)]
       ELSE IF c.r.method # "GET"
       THEN [c EXCEPT !.pc = "done",
                      !.w = HttpError(c.w, <<c.r.method, "is not allowed">>, 405)]
       ELSE [c EXCEPT !.pc = "serve_html"]]
  /\ UNCHANGED <<hvars, pvars, producers, ncalls, firstReg>>

\* What a Producer's HTML does: it may write to w, and then returns nil or
\* an error, or panics.
HtmlOutcomes ==
  { [wrote |-> wr, panic |-> FALSE, err |-> e] :
      wr \in BOOLEAN, e \in {Nil, ErrNotExist, ErrProducer} }
  \cup { [wrote |-> wr, panic |-> TRUE, err |-> Nil] : wr \in BOOLEAN }

\* if err := p.HTML(w, name); err != nil { ... }, and the deferred recover
ServeHTML(t) ==
  /\ calls[t].pc = "serve_html"
  /\ \E o \in HtmlOutcomes :
       LET c == [calls[t] EXCEPT
                   !.invoked = @ \o << [p |-> calls[t].p,
                                        name |-> calls[t].r.segs[2]] >>,
                   !.out = o,
                   !.w = IF o.wrote THEN Write(@, <<"<html>">>) ELSE @]
       IN calls' = [calls EXCEPT ![t] =
            IF o.panic THEN muxRecover(c, <<"it-happens">>)
            ELSE IF o.err = Nil THEN [c EXCEPT !.pc = "done"]
            ELSE IF IsNotExist(o.err)
            THEN [c EXCEPT !.pc = "done", !.w = NotFound(c.w)]
            ELSE [c EXCEPT
                    !.pc = "done",
                    !.w = HttpError(c.w, <<"Can't produce output">>, 500),
                    !.logged = muxLog("error", o.err.msg)]]
  /\ UNCHANGED <<hvars, pvars, producers, mu, ncalls, firstReg>>

MuxNext ==
  \E t \in Threads :
    \/ AddProducer(t) \/ AddLock(t) \/ AddMap(t) \/ AddUnlock(t)
    \/ ServeHTTP(t) \/ ServeLock(t) \/ ServeLookup(t) \/ ServeUnlock(t)
    \/ ServeHTML(t)

MuxSpec == MuxInit /\ [][MuxNext]_vars

\* Vocabulary of the ServeMux properties.
AddDecided(t) ==
  /\ calls'[t].op = "add"
  /\ calls[t].pc # "add_unlock"
  /\ calls'[t].pc \in {"done", "add_unlock"}
  /\ calls'[t] # calls[t]
Registered(key, p) ==
  [k \in DOMAIN producers \cup {key} |->
     IF k = key THEN p ELSE producers[k]]
C16_Registry ==
  /\ DOMAIN producers = DOMAIN firstReg
  /\ \A k \in DOMAIN producers :
       /\ producers[k] = firstReg[k]
       /\ k \notin BlankKeys
       /\ producers[k] # NoProducer
C16_Call ==
  \A t \in Threads :
    AddDecided(t) =>
      LET c == calls'[t] IN
      IF c.p = NoProducer \/ c.key \in BlankKeys \/ c.key \in DOMAIN producers
      THEN c.ret # Nil /\ producers' = producers
      ELSE c.ret = Nil /\ producers' = Registered(c.key, c.p)

\* C16: AddProducer returns an error and leaves the registry as it is
\* when the producer is nil, the key is blank or the key is registered;
\* otherwise it maps the key to the producer and returns nil.  So every
\* key of the registry maps to the first producer registered under it, no
\* key is blank and no value is nil.
C16_AddProducer == []C16_Registry /\ [][C16_Call]_vars

C16_Witness ==
  \E t \in Threads :
    /\ calls[t].op = "add" /\ calls[t].pc = "done"
    /\ calls[t].key = "key1" /\ calls[t].p = "p2"
    /\ calls[t].ret = ErrRegistered("key1")
    /\ "key1" \in DOMAIN producers
    /\ producers["key1"] = "p1"

Served(t) == calls[t].op = "serve" /\ calls[t].pc = "done"
NotInvoked(c) == c.invoked = <<>>
InvokedOnce(c) == c.invoked = << [p |-> c.p, name |-> c.r.segs[2]] >>

\* The outcome the order of validation gives a request whose path has
\* the segments segs after the base URL; ok and p are what the registry
\* answered at the lookup.
ValidatedInOrder(c) ==
  IF Len(c.r.segs) # 2
  THEN /\ Code(c.w) = 404 /\ c.w.body = <<"404 page not found">>
       /\ NotInvoked(c)
  ELSE IF ~c.ok
  THEN /\ Code(c.w) = 501
       /\ c.w.body = <<c.r.segs[1], "is not supported">>
       /\ NotInvoked(c)
  ELSE IF c.r.method # "GET"
  THEN /\ Code(c.w) = 405
       /\ c.w.body = <<c.r.method, "is not allowed">>
       /\ NotInvoked(c)
  ELSE InvokedOnce(c)

\* C17 as stated, for every request: 404 unless the path has exactly two
\* segments after the base URL, else 501 for an unregistered key, else
\* 405 for a method other than GET, else the registered producer invoked
\* once with the second segment.
C17_Original ==
  \A t \in Threads : Served(t) => ValidatedInOrder(calls[t])

\* the registry's answer at the lookup is the registry's content then
C17_Lookup ==
  \A t \in Threads :
    (calls[t].pc = "serve_lookup" /\ calls'[t].pc = "serve_unlock") =>
      /\ calls'[t].ok = (calls[t].key \in DOMAIN producers)
      /\ calls'[t].key = calls[t].r.segs[1]
      /\ calls'[t].ok => calls'[t].p = producers[calls[t].key]
C17_UnderBase ==
  \A t \in Threads :
    /\ (Served(t) /\ ~calls[t].r.short) => ValidatedInOrder(calls[t])
    /\ (Served(t) /\ calls[t].r.short) =>
         /\ Code(calls[t].w) = 500 /\ NotInvoked(calls[t])
         /\ calls[t].w.body = <<"Unexpected error occured">>
    /\ calls[t].pc # "done" => NotInvoked(calls[t])

\* C17, what the code does: the order holds for every request whose path
\* is at least as long as the base URL; a shorter path panics in the
\* slice expression and gets the 500 of the deferred recover.
C17_OrderUnderBase == []C17_UnderBase /\ [][C17_Lookup]_vars

C17_Witness ==
  \E t \in Threads :
    /\ Served(t) /\ calls[t].r.method = "POST"
    /\ calls[t].r.segs = <<"key2", "name3">>
    /\ "key1" \in DOMAIN producers /\ "key2" \notin DOMAIN producers
    /\ Code(calls[t].w) = 501

\* The status, the text and the log line the producer's outcome is
\* mapped to.
OutcomeStatus(o) ==
  IF o.panic THEN 500
  ELSE IF o.err = Nil THEN 200
  ELSE IF o.err = ErrNotExist THEN 404 ELSE 500
OutcomeText(o) ==
  IF o.panic THEN <<"Unexpected error occured">>
  ELSE IF o.err = Nil THEN <<>>
  ELSE IF o.err = ErrNotExist THEN <<"404 page not found">>
  ELSE <<"Can't produce output">>
OutcomeLog(o) ==
  IF o.panic THEN <<"[PANIC]", "it-happens">>
  ELSE IF o.err \in {Nil, ErrNotExist} THEN <<>>
  ELSE <<"[ERROR]">> \o o.err.msg
Produced(o) == IF o.wrote THEN <<"<html>">> ELSE <<>>

\* C18 as stated: nil gives 200, a not-exist error 404, any other error
\* 500 "Can't produce output" and an [ERROR] log line, a panic 500
\* "Unexpected error occured" and a [PANIC] log line; the call returns.
C18_Original ==
  \A t \in Threads :
    (Served(t) /\ ~NotInvoked(calls[t])) =>
      /\ Code(calls[t].w) = OutcomeStatus(calls[t].out)
      /\ calls[t].w.body =
           Produced(calls[t].out) \o OutcomeText(calls[t].out)
      /\ calls[t].logged = OutcomeLog(calls[t].out)

\* C18, what the code does: the mapping holds when the producer has
\* written nothing; after a write the status is the 200 that write
\* committed, whatever the outcome, and the text is appended to the
\* output.  The log line does not depend on it.
C18_StatusUnlessWritten ==
  \A t \in Threads :
    (Served(t) /\ ~NotInvoked(calls[t])) =>
         /\ Code(calls[t].w) =
              IF calls[t].out.wrote THEN 200
              ELSE OutcomeStatus(calls[t].out)
         /\ calls[t].w.body =
              Produced(calls[t].out) \o OutcomeText(calls[t].out)
         /\ calls[t].logged = OutcomeLog(calls[t].out)

C18_Witness ==
  \E t \in Threads :
    /\ Served(t)
    /\ calls[t].out = [wrote |-> TRUE, panic |-> FALSE, err |-> ErrProducer]
    /\ calls[t].w = [status |-> 200,
                     body |-> <<"<html>", "Can't produce output">>]
    /\ calls[t].logged = <<"[ERROR]", "sad-but-true">>

\* ---- birthday normalization in both readers ----
\* The birthday texts the two readers are run on: every combination of
\* the day, month and year digits below in the reader's convention, and
\* texts of another shape.
DateDays == { <<"0", "0">>, <<"0", "1">>, <<"2", "8">>, <<"2", "9">>,
              <<"3", "0">>, <<"3", "1">>, <<"3", "2">> }
DateMonths == { <<"0", "0">>, <<"0", "1">>, <<"0", "2">>, <<"0", "4">>,
                <<"1", "2">>, <<"1", "3">> }
DateYears == { <<"1", "9", "0", "0">>, <<"2", "0", "0", "0">>,
               <<"1", "9", "8", "2">>, <<"1", "9", "8", "4">> }
CsvDate(dd, mm, yy) == dd \o <<"/">> \o mm \o <<"/">> \o yy
MonDate(dd, mm, yy) == yy \o mm \o dd
IsoDate(dd, mm, yy) == yy \o <<"-">> \o mm \o <<"-">> \o dd
OtherTexts ==
  { <<>>, <<"x">>,
    <<"1", "/", "2", "/", "1", "9", "8", "2">>,
    <<"0", "1", "-", "0", "2", "-", "1", "9", "8", "2">>,
    <<"1", "9", "8", "2", "-", "0", "2", "-", "0", "1">>,
    <<"1", "9", "8", "2", "0", "2", "0">>,
    <<"0", "1", "/", "0", "2", "/", "8", "2">>,
    <<"0", "1", "/", "0", "2", "/", "1", "9", "8", "x">> }
CsvDateTexts ==
  { CsvDate(dd, mm, yy) : dd \in DateDays, mm \in DateMonths, yy \in DateYears }
  \cup OtherTexts \cup { MonDate(<<"0", "1">>, <<"0", "2">>, <<"1", "9", "8", "2">>) }
MonDateTexts ==
  { MonDate(dd, mm, yy) : dd \in DateDays, mm \in DateMonths, yy \in DateYears }
  \cup OtherTexts

\* the header of a file with the birthday column alone: one field for the
\* csv reader, a column ten runes wide for the fixed-width reader
CsvDateHeader == << <<"B", "i", "r", "t", "h", "d", "a", "y">> >>
MonDateHeader ==
  <<"B", "i", "r", "t", "h", "d", "a", "y", " ", " ", Newline>>

\* a text filled with spaces to the width of the column, and the newline
MonDateLine(v) ==
  v \o [i \in 1..(10 - Len(v)) |-> " "] \o <<Newline>>

DateInit ==
  /\ MuxIdle
  /\ \/ /\ HtmlIdle("csv")
        /\ ppc = "csv_layout" /\ hdr = CsvDateHeader /\ lt = csvNoLayout
        /\ rec = [record |-> <<>>, err |-> "nil"]
     \/ /\ HtmlIdle("mon")
        /\ ppc = "mon_layout" /\ hdr = MonDateHeader /\ lt = <<>>
        /\ rec = <<>>
  /\ row = [row |-> csvEmptyRow, err |-> "nil"]

\* csv readRow on a record whose one field is a birthday text
csvDateStep ==
  /\ ppc = "csv_row"
  /\ \E v \in CsvDateTexts :
       LET read == csvEncRead([is |-> "rec", fields |-> <<v>>], Len(hdr)) IN
       /\ rec' = read
       /\ row' = csvReadRow(read, lt)
       /\ ppc' = IF csvReadRow(read, lt).err = "nil" THEN "csv_loop"
                 ELSE "csv_return"
  /\ UNCHANGED <<hvars, xvars, hdr, lt>>

\* mon readRow on a line whose one column holds a birthday text
monDateStep ==
  /\ ppc = "mon_row"
  /\ \E v \in MonDateTexts :
       /\ rec' = MonDateLine(v)
       /\ row' = monReadRow(MonDateLine(v), lt)
       /\ ppc' = IF monReadRow(MonDateLine(v), lt).err = "nil" THEN "mon_loop"
                 ELSE "mon_return"
  /\ UNCHANGED <<hvars, xvars, hdr, lt>>

DateNext == csvLayoutStep \/ monLayoutStep \/ csvDateStep \/ monDateStep

DateSpec == DateInit /\ [][DateNext]_vars

\* Vocabulary of the birthday property: the dates of the calendar.
CalendarDays(mm, yy) ==
  IF mm \in { <<"0", "1">>, <<"1", "2">> } THEN 31
  ELSE IF mm = <<"0", "4">> THEN 30
  ELSE IF mm = <<"0", "2">>
  THEN IF yy \in { <<"2", "0", "0", "0">>, <<"1", "9", "8", "4">> } THEN 29
       ELSE 28
  ELSE 0
CalendarDay(dd) ==
  CASE dd = <<"0", "0">> -> 0 [] dd = <<"0", "1">> -> 1
    [] dd = <<"2", "8">> -> 28 [] dd = <<"2", "9">> -> 29
    [] dd = <<"3", "0">> -> 30 [] dd = <<"3", "1">> -> 31
    [] dd = <<"3", "2">> -> 32
RealDate(dd, mm, yy) ==
  CalendarDay(dd) >= 1 /\ CalendarDay(dd) <= CalendarDays(mm, yy)
DateParts == DateDays \X DateMonths \X DateYears
DateInput ==
  IF kind = "csv" THEN rec.record[1]
  ELSE TrimSpace(SubSeq(rec, 1, Len(rec) - 1))
DateInConvention(q) ==
  IF kind = "csv" THEN CsvDate(q[1], q[2], q[3]) ELSE MonDate(q[1], q[2], q[3])

\* C21: a birthday that is a date of the calendar in the reader's
\* convention is emitted as YYYY-MM-DD of that date; every other text,
\* an impossible date of the right shape included, is emitted as it is;
\* the row is a data row either way.
C21_BirthdayNormalized ==
  ppc \in {"csv_loop", "mon_loop", "csv_return", "mon_return"} =>
    /\ row.err = "nil" /\ ppc \in {"csv_loop", "mon_loop"}
    /\ \A q \in DateParts :
         DateInput = DateInConvention(q) =>
           row.row.Birthday =
             IF RealDate(q[1], q[2], q[3]) THEN IsoDate(q[1], q[2], q[3])
             ELSE DateInput
    /\ (\A q \in DateParts : DateInput # DateInConvention(q)) =>
         row.row.Birthday = DateInput

C21_Witness ==
  /\ ppc = "csv_loop" /\ kind = "csv"
  /\ rec.record = << <<"2", "9", "/", "0", "2", "/", "1", "9", "0", "0">> >>
  /\ row.row.Birthday = <<"2", "9", "/", "0", "2", "/", "1", "9", "0", "0">>
  /\ row.err = "nil"

\* ---- the outcome channel of Producer.HTML ----
\* Vocabulary: whether a goroutine is past its send on done, and the
\* positions at which it is about to send.
ReaderReported ==
  IF rpanic = NoPanic THEN rpc \in {"close_rows", "close_confirm", "end"}
  ELSE rpc = "end"
RenderReported ==
  IF tpanic = NoPanic THEN tpc \in {"stop", "drain", "end"}
  ELSE tpc = "end"
Reports(b) == IF b THEN 1 ELSE 0
ReaderAboutToReport == rpc \in {"done_nil", "recover"}
RenderAboutToReport == tpc \in {"done_early", "done_send", "recover"}
C22_Inv ==
  /\ Len(received) + Len(done) = Reports(ReaderReported) + Reports(RenderReported)
  /\ Len(done) <= HtmlDoneCap
  /\ (ReaderAboutToReport \/ RenderAboutToReport) => Len(done) < doneCap
  /\ mpc = "returned" => Len(received) = 2 /\ ReaderReported /\ RenderReported
C22_Step ==
  /\ Len(done') > Len(done) =>
       /\ Len(done') = Len(done) + 1
       /\ (rpc' # rpc) # (tpc' # tpc)
  /\ (Reports(ReaderReported') - Reports(ReaderReported)) =
       Reports(Len(done') > Len(done) /\ rpc' # rpc)
  /\ (Reports(RenderReported') - Reports(RenderReported)) =
       Reports(Len(done') > Len(done) /\ tpc' # tpc)

\* C22: in every run of HTML exactly two values are sent on done, one by
\* the reader goroutine and one by the rendering goroutine, whatever the
\* reader and the renderer do; a sender never finds the channel full, and
\* waitForDone returns after having received both.
C22_TwoOutcomes ==
  /\ []C22_Inv
  /\ [][C22_Step]_vars
  /\ <>(mpc = "returned" /\ Len(received) = 2)

C22_Witness ==
  /\ mpc = "returned" /\ Len(received) = 2
  /\ rpanic # NoPanic /\ tpanic # NoPanic
  /\ rpc = "end" /\ tpc = "end"

\* ---- exclusion on the registry ----
\* A call is in the critical section from its Lock() to its Unlock(); the
\* map is read or written only there.
InCritical(t) ==
  calls[t].pc \in {"add_map", "add_unlock", "serve_lookup", "serve_unlock"}
AddReturned(t) ==
  /\ calls[t].op = "add" /\ calls[t].pc = "done"
  /\ calls[t].p # NoProducer /\ calls[t].key \notin BlankKeys
LookedUp(t) ==
  /\ calls[t].op = "serve"
  /\ calls[t].pc \in {"serve_unlock", "serve_html"}
       \/ (calls[t].pc = "done" /\ ~calls[t].r.short /\ Len(calls[t].r.segs) = 2)

\* C23: two calls are never in the critical section together, so of the
\* AddProducer calls that race for one key exactly one returns nil and
\* the others the already-registered error, the key maps to the winner's
\* producer, and a lookup finds the key absent or mapped to the winner.
C23_Exclusion ==
  /\ \A t, u \in Threads : (InCritical(t) /\ InCritical(u)) => t = u
  /\ \A t \in Threads : InCritical(t) <=> mu = t
  /\ \A t, u \in Threads :
       (t # u /\ AddReturned(t) /\ AddReturned(u)
          /\ calls[t].key = calls[u].key) =>
         /\ ~(calls[t].ret = Nil /\ calls[u].ret = Nil)
         /\ calls[t].ret \in {Nil, ErrRegistered(calls[t].key)}
         /\ ncalls = 2 => (calls[t].ret = Nil \/ calls[u].ret = Nil)
  /\ \A t \in Threads :
       (AddReturned(t) /\ calls[t].ret = Nil) =>
         /\ calls[t].key \in DOMAIN producers
         /\ producers[calls[t].key] = calls[t].p
  /\ \A t \in Threads :
       LookedUp(t) =>
         IF calls[t].ok
         THEN /\ calls[t].key \in DOMAIN firstReg
              /\ calls[t].p = firstReg[calls[t].key]
         ELSE calls[t].p = NoProducer

C23_Witness ==
  /\ ncalls = 2
  /\ AddReturned(1) /\ AddReturned(2)
  /\ calls[1].key = "key1" /\ calls[2].key = "key1"
  /\ calls[1].p = "p1" /\ calls[2].p = "p2"
  /\ calls[1].ret = ErrRegistered("key1") /\ calls[2].ret = Nil
  /\ producers = ("key1" :> "p2")

\* ---- the lock while a producer runs ----
\* The steps of a call that the scheduler takes whenever they can be
\* taken: all but the start of a call and the producer's HTML, which may
\* stall for ever.
MuxProgress(t) ==
  \/ AddLock(t) \/ AddMap(t) \/ AddUnlock(t)
  \/ ServeLock(t) \/ ServeLookup(t) \/ ServeUnlock(t)

MuxFairSpec == MuxSpec /\ \A t \in Threads : WF_vars(MuxProgress(t))

WaitsForLock(t) == calls[t].pc \in {"add_lock", "serve_lock"}
C28_LockFree ==
  \A t \in Threads :
    calls[t].pc \in {"idle", "done", "serve_html", "add_lock", "serve_lock"}
      => mu # t

\* C28: a call holds the mutex only between Lock() and Unlock(): not
\* while the producer runs and not after the call has ended, a panic of
\* the producer included; so a call that waits for the mutex gets it even
\* if a producer never returns.
C28_LockOnlyForLookup ==
  /\ []C28_LockFree
  /\ \A t \in Threads : WaitsForLock(t) ~> InCritical(t)

C28_Witness ==
  /\ calls[1].pc = "serve_html"
  /\ calls[2].op = "add" /\ calls[2].pc = "add_map"
  /\ mu = 2

\* ---- the stop signal ----
ConfirmedNil == confirmSent = <<Nil>> /\ confirm.buf = <<>>
C24_Inv ==
  /\ stopRead => ConfirmedNil
  /\ stopRead => tpc \in {"drain", "recover", "end"}
  /\ (ConfirmedError \/ (confirm.closed /\ confirmSent = <<>>)) => ~stopRead
C24_Step ==
  /\ stopRead => stopRead'
  /\ stopRead' # stopRead =>
       /\ tpc = "stop" /\ tpc' = "drain"
       /\ rpc' = rpc /\ mpc' = mpc
       /\ ConfirmedNil
       /\ executed
       /\ tpanic # NoPanic \/ RenderReported

\* C24: stopRead is closed at most once in a run of HTML, by a step of the
\* rendering goroutine, after it has received a nil confirmation and
\* after Execute has ended (its outcome sent, or panicked); it stays open
\* when the confirmation was an error or the confirm channel was closed
\* without a value.
C24_StopOnlyAfterRendering == []C24_Inv /\ [][C24_Step]_vars

C24_Witness ==
  /\ stopRead /\ tpc = "drain"
  /\ confirmSent = <<Nil>>
  /\ tpanic = NoPanic /\ terr = ErrWrite
  /\ Len(done) + Len(received) >= 1

\* ---- the reader after the stop signal ----
\* Every row taken off the channel after the stop is taken by the drain,
\* and a row offered after it waits in the channel or was drained.
C25_Inv ==
  /\ drained # <<>> => stopRead
  /\ stopRead => Len(drained) + Len(rows.buf) <= 1
C25_Step ==
  (stopRead /\ Len(drained) = 1) => (src' = src /\ rowsSent' = rowsSent)

\* C25: once stopRead is closed the reader sends at most one more row,
\* the one it was producing or offering then, reads nothing after it and
\* returns at its next stop check, however much of the source is left.
C25_OneRowAfterStop ==
  /\ []C25_Inv
  /\ [][C25_Step]_vars
  /\ (stopRead /\ ReadRunning) ~> ReadOver

C25_Witness ==
  /\ stopRead /\ Len(drained) = 1
  /\ drained[1] = DataRow("r1")
  /\ exitPath = "stop" /\ ReadOver
  /\ Len(src) < MaxReads

\* ---- the state of the reader when HTML returns ----
\* C26: when HTML returns, Read has ended (returned or panicked) and the
\* byte stream, if Load opened one, is closed; the rows channel can still
\* be open then and the rendering goroutine still before or in its drain.
C26_ReadOverAtReturn ==
  mpc = "returned" =>
    /\ ReadOver
    /\ rpc \notin {"done_nil", "recover"}
    /\ LoadSucceeded => stream = "closed"
    /\ LoadFailed => stream = "none"

C26_Witness ==
  /\ mpc = "returned"
  /\ stream = "closed" /\ rpc = "close_rows" /\ ~rows.closed
  /\ tpc = "drain" /\ rows.buf = <<>>

\* ---- the lines of a fixed-width file ----
\* The lines of the stream that end in a newline, and those of them that
\* follow the header.
MonTerminated == {"r1", "r2", "short", "bad"}
MonLinesAfterHeader ==
  SelectSeq(SubSeq(src, 2, Len(src)), LAMBDA i : i \in MonTerminated)

\* C27: when Read of the fixed-width reader has returned without a stop
\* and without a read failure, it has sent one data row for each
\* newline-terminated line after the header, in order, and nothing else:
\* a last line without a newline, and a header without one, give no row
\* and no error row.
C27_RowsPerTerminatedLine ==
  (kind = "mon" /\ ReadReturned /\ exitPath \in {"eof", "empty"}) =>
    /\ Len(rowsSent) = Len(MonLinesAfterHeader)
    /\ \A i \in 1..Len(rowsSent) : rowsSent[i] = DataRow(MonLinesAfterHeader[i])
    /\ exitPath = "empty" => rowsSent = <<>> /\ src \in {<<"eof">>, <<"nonl">>}
    /\ src[Len(src)] \in {"eof", "nonl"}

C27_Witness ==
  /\ kind = "mon" /\ ReadReturned /\ exitPath = "eof"
  /\ src = <<"r1", "r2", "nonl">>
  /\ rowsSent = <<DataRow("r2")>>

====
